---- MODULE Spec2Model ----
(***************************************************************************)
(* zetasql/public/functions/convert_string_with_format.cc                  *)
(*                                                                         *)
(* The format-string parser (class FormatParser) and the three entry       *)
(* points built on it.  A format string is a sequence of characters; the   *)
(* parser reads it one format element at a time.  The characters of the    *)
(* string are fixed as the parse loop first looks at them (strings holds,  *)
(* for each string of the caller, the characters looked at so far and the  *)
(* length of the whole string), so every string over the alphabet is       *)
(* explored.                                                               *)
(***************************************************************************)
EXTENDS Integers, Sequences, FiniteSets, TLC

VARIABLES
  alphabet,   \* the characters the format string is drawn from
  max_width,  \* the value of the flag zetasql_format_max_output_width
  calls,      \* the calls the caller makes, in order: entry point fn on the
              \* format string arg
  strings,    \* the caller's format strings: the characters looked at so
              \* far and the length
  call,       \* 1-based index in calls of the running call
  pc,         \* position inside the running call
  index,      \* Parse's local variable index
  parser,     \* the FormatParser object of the running call
  tokens,     \* the format elements GetFormatElement has returned in this call
  status,     \* the absl::Status the running call has come to
  raised,     \* the place in the code that status comes from
  v_is_null,  \* v.is_null() of the value passed to the running call
  results     \* what each finished call returned

vars == <<alphabet, max_width, calls, strings, call, pc, index, parser,
          tokens, status, raised, v_is_null, results>>

\* the argument format of the running call, as far as its characters are
\* fixed
format == strings[calls[call].arg].format

\* format.size()
size == strings[calls[call].arg].size

----------------------------------------------------------------------------
(* Bounds of the model. *)

\* the maximum width (the flag zetasql_format_max_output_width) under Spec;
\* format strings are explored up to one character beyond it
MaxFormatLen == 3

\* the maximum width under SpecDecimal
MaxDecimalLen == 8

\* the maximum width under SpecFlags
MaxFlagsLen == 6

\* the maximum width under SpecHex
MaxHexLen == 17

\* the maximum width under SpecCalls
MaxCallsLen == 3

\* the maximum width under SpecCase
MaxCaseLen == 4

\* the maximum width under SpecTokens
MaxTokensLen == 4

\* the maximum width under SpecPoints
MaxPointsLen == 6

\* the maximum width under SpecExponent
MaxExponentLen == 8

\* the maximum width under SpecRender
MaxRenderLen == 5

\* the maximum width under SpecOverflow
MaxOverflowLen == 6

\* the maximum width under SpecSigns
MaxSignsLen == 5

\* the maximum width under SpecUnimplemented
MaxUnimplementedLen == 3

\* the maximum width under SpecSeparators
MaxSeparatorsLen == 4

\* the maximum width under SpecMoves
MaxMovesLen == 4

\* the maximum width under SpecStates
MaxStatesLen == 7

----------------------------------------------------------------------------
(* Program constants. *)

\* the largest digit_count_ FinalValidate lets a hexadecimal format have
MaxHexDigits == 16

\* std::string::npos, the value of decimal_point_index before it is set
npos == -1

nullopt == "nullopt"

----------------------------------------------------------------------------
(* Characters. *)

Chars ==
  {"$", "0", "9", "X", "x", ".", "D", "d", ",", "G", "g", "S", "s", "M", "m",
   "I", "i", "P", "p", "R", "r", "N", "n", "E", "e", "B", "b", "V", "v", "F",
   "f", "T", "t", "C", "c", "L", "l", "1"}

UpperOf ==
  [x |-> "X", d |-> "D", g |-> "G", s |-> "S", m |-> "M", i |-> "I",
   p |-> "P", r |-> "R", n |-> "N", e |-> "E", b |-> "B", v |-> "V",
   f |-> "F", t |-> "T", c |-> "C", l |-> "L"]

ToUpper(c) == IF c \in DOMAIN UpperOf THEN UpperOf[c] ELSE c

Min(a, b) == IF a < b THEN a ELSE b

\* absl::StartsWithIgnoreCase(str, prefix)
StartsWithIgnoreCase(str, prefix) ==
  /\ Len(str) >= Len(prefix)
  /\ \A i \in 1..Len(prefix) : ToUpper(str[i]) = ToUpper(prefix[i])

----------------------------------------------------------------------------
(* The tokenizer. *)

Found(element, length) == [element |-> element, length |-> length]

\* GetFormatElement testing for "TM" before "TM9" and "TME"
GetFormatElement_TmFirst(str) ==
  IF str = << >> THEN Found(nullopt, 0)
  ELSE CASE str[1] = "$" -> Found("kCurrencyDollar", 1)
         [] str[1] = "0" -> Found("kDigit0", 1)
         [] str[1] = "9" -> Found("kDigit9", 1)
         [] str[1] = "X" -> Found("kDigitXUpper", 1)
         [] str[1] = "x" -> Found("kDigitXLower", 1)
         [] str[1] = "." -> Found("kDecimalPointDot", 1)
         [] str[1] \in {"D", "d"} -> Found("kDecimalPointD", 1)
         [] str[1] = "," -> Found("kGroupSeparatorComma", 1)
         [] str[1] \in {"G", "g"} -> Found("kGroupSeparatorG", 1)
         [] str[1] \in {"S", "s"} -> Found("kSignS", 1)
         [] str[1] \in {"M", "m"} ->
              IF StartsWithIgnoreCase(str, <<"M", "I">>)
              THEN Found("kSignMi", 2) ELSE Found(nullopt, 1)
         [] str[1] \in {"P", "p"} ->
              IF StartsWithIgnoreCase(str, <<"P", "R">>)
              THEN Found("kSignPr", 2) ELSE Found(nullopt, 1)
         [] str[1] = "R" ->
              IF StartsWithIgnoreCase(str, <<"R", "N">>)
              THEN Found("kRomanNumeralUpper", 2) ELSE Found(nullopt, 1)
         [] str[1] = "r" ->
              IF StartsWithIgnoreCase(str, <<"R", "N">>)
              THEN Found("kRomanNumeralLower", 2) ELSE Found(nullopt, 1)
         [] str[1] = "E" ->
              IF StartsWithIgnoreCase(str, <<"E", "E", "E", "E">>)
              THEN Found("kExponentEeeeUpper", 4) ELSE Found(nullopt, 1)
         [] str[1] = "e" ->
              IF StartsWithIgnoreCase(str, <<"E", "E", "E", "E">>)
              THEN Found("kExponentEeeeLower", 4) ELSE Found(nullopt, 1)
         [] str[1] \in {"B", "b"} -> Found("kElementB", 1)
         [] str[1] \in {"V", "v"} -> Found("kElementV", 1)
         [] str[1] \in {"F", "f"} ->
              IF StartsWithIgnoreCase(str, <<"F", "M">>)
              THEN Found("kCompactMode", 2) ELSE Found(nullopt, 1)
         [] str[1] = "T" ->
              IF StartsWithIgnoreCase(str, <<"T", "M">>)
              THEN Found("kTmUpper", 2)
              ELSE IF StartsWithIgnoreCase(str, <<"T", "M", "9">>)
              THEN Found("kTm9Upper", 3)
              ELSE IF StartsWithIgnoreCase(str, <<"T", "M", "E">>)
              THEN Found("kTmeUpper", 3) ELSE Found(nullopt, 1)
         [] str[1] = "t" ->
              IF StartsWithIgnoreCase(str, <<"T", "M">>)
              THEN Found("kTmLower", 2)
              ELSE IF StartsWithIgnoreCase(str, <<"T", "M", "9">>)
              THEN Found("kTm9Lower", 3)
              ELSE IF StartsWithIgnoreCase(str, <<"T", "M", "E">>)
              THEN Found("kTmeLower", 3) ELSE Found(nullopt, 1)
         [] str[1] = "C" -> Found("kCurrencyCUpper", 1)
         [] str[1] = "c" -> Found("kCurrencyCLower", 1)
         [] str[1] \in {"L", "l"} -> Found("kCurrencyL", 1)
         [] OTHER -> Found(nullopt, 1)

\* GetFormatElement(str, length): the format element at the start of str and
\* its length, or nullopt
GetFormatElement(str) ==
  IF str = << >> THEN Found(nullopt, 0)
  ELSE CASE str[1] = "$" -> Found("kCurrencyDollar", 1)
         [] str[1] = "0" -> Found("kDigit0", 1)
         [] str[1] = "9" -> Found("kDigit9", 1)
         [] str[1] = "X" -> Found("kDigitXUpper", 1)
         [] str[1] = "x" -> Found("kDigitXLower", 1)
         [] str[1] = "." -> Found("kDecimalPointDot", 1)
         [] str[1] \in {"D", "d"} -> Found("kDecimalPointD", 1)
         [] str[1] = "," -> Found("kGroupSeparatorComma", 1)
         [] str[1] \in {"G", "g"} -> Found("kGroupSeparatorG", 1)
         [] str[1] \in {"S", "s"} -> Found("kSignS", 1)
         [] str[1] \in {"M", "m"} ->
              IF StartsWithIgnoreCase(str, <<"M", "I">>)
              THEN Found("kSignMi", 2) ELSE Found(nullopt, 1)
         [] str[1] \in {"P", "p"} ->
              IF StartsWithIgnoreCase(str, <<"P", "R">>)
              THEN Found("kSignPr", 2) ELSE Found(nullopt, 1)
         [] str[1] = "R" ->
              IF StartsWithIgnoreCase(str, <<"R", "N">>)
              THEN Found("kRomanNumeralUpper", 2) ELSE Found(nullopt, 1)
         [] str[1] = "r" ->
              IF StartsWithIgnoreCase(str, <<"R", "N">>)
              THEN Found("kRomanNumeralLower", 2) ELSE Found(nullopt, 1)
         [] str[1] = "E" ->
              IF StartsWithIgnoreCase(str, <<"E", "E", "E", "E">>)
              THEN Found("kExponentEeeeUpper", 4) ELSE Found(nullopt, 1)
         [] str[1] = "e" ->
              IF StartsWithIgnoreCase(str, <<"E", "E", "E", "E">>)
              THEN Found("kExponentEeeeLower", 4) ELSE Found(nullopt, 1)
         [] str[1] \in {"B", "b"} -> Found("kElementB", 1)
         [] str[1] \in {"V", "v"} -> Found("kElementV", 1)
         [] str[1] \in {"F", "f"} ->
              IF StartsWithIgnoreCase(str, <<"F", "M">>)
              THEN Found("kCompactMode", 2) ELSE Found(nullopt, 1)
         [] str[1] = "T" ->
              IF StartsWithIgnoreCase(str, <<"T", "M", "9">>)
              THEN Found("kTm9Upper", 3)
              ELSE IF StartsWithIgnoreCase(str, <<"T", "M", "E">>)
              THEN Found("kTmeUpper", 3)
              ELSE IF StartsWithIgnoreCase(str, <<"T", "M">>)
              THEN Found("kTmUpper", 2) ELSE Found(nullopt, 1)
         [] str[1] = "t" ->
              IF StartsWithIgnoreCase(str, <<"T", "M", "9">>)
              THEN Found("kTm9Lower", 3)
              ELSE IF StartsWithIgnoreCase(str, <<"T", "M", "E">>)
              THEN Found("kTmeLower", 3)
              ELSE IF StartsWithIgnoreCase(str, <<"T", "M">>)
              THEN Found("kTmLower", 2) ELSE Found(nullopt, 1)
         [] str[1] = "C" -> Found("kCurrencyCUpper", 1)
         [] str[1] = "c" -> Found("kCurrencyCLower", 1)
         [] str[1] \in {"L", "l"} -> Found("kCurrencyL", 1)
         [] OTHER -> Found(nullopt, 1)

\* FormatElementToString(element): always the uppercase spelling
FormatElementToString(element) ==
  CASE element = "kCurrencyDollar" -> "$"
    [] element = "kDigit0" -> "0"
    [] element = "kDigit9" -> "9"
    [] element \in {"kDigitXLower", "kDigitXUpper"} -> "X"
    [] element = "kDecimalPointDot" -> "."
    [] element = "kGroupSeparatorComma" -> ","
    [] element = "kSignS" -> "S"
    [] element = "kSignMi" -> "MI"
    [] element = "kSignPr" -> "PR"
    [] element \in {"kRomanNumeralLower", "kRomanNumeralUpper"} -> "RN"
    [] element \in {"kExponentEeeeLower", "kExponentEeeeUpper"} -> "EEEE"
    [] element = "kElementB" -> "B"
    [] element = "kElementV" -> "V"
    [] element = "kCompactMode" -> "FM"
    [] element \in {"kTm9Lower", "kTm9Upper"} -> "TM9"
    [] element \in {"kTmeLower", "kTmeUpper"} -> "TME"
    [] element \in {"kTmLower", "kTmUpper"} -> "TM"
    [] element \in {"kCurrencyCLower", "kCurrencyCUpper"} -> "C"
    [] element = "kCurrencyL" -> "L"
    [] element = "kDecimalPointD" -> "D"
    [] element = "kGroupSeparatorG" -> "G"

----------------------------------------------------------------------------
(* Statuses. *)

OkStatus == [code |-> "kOk", message |-> ""]

ErrorPrefix == "Error in format string: "

\* FormatStringErrorBuilder() << text
FormatStringErrorBuilder(text) ==
  [code |-> "kOutOfRange", message |-> ErrorPrefix \o text]

\* a failed ZETASQL_RET_CHECK
RetCheckFailure(text) == [code |-> "kInternal", message |-> text]

\* zetasql_base::UnimplementedErrorBuilder() << text
UnimplementedErrorBuilder(text) == [code |-> "kUnimplemented", message |-> text]

\* absl::optional<T>::value() on an empty optional
BadOptionalAccess == [code |-> "bad_optional_access", message |-> ""]

\* what a step of the parser hands back: the parser object and the status
Step(p, st) == [parser |-> p, status |-> st]

----------------------------------------------------------------------------
(* The parser object. *)

\* a default-constructed ParsedFormatElementInfo
ParsedFormatElementInfo ==
  [output_type |-> "unset",
   elements |-> << >>,
   decimal_point |-> nullopt,
   decimal_point_index |-> 0,
   index_of_first_zero |-> [has_value |-> FALSE, value |-> 0],
   num_integer_digit |-> 0,
   scale |-> 0,
   sign |-> nullopt,
   sign_at_front |-> FALSE,
   currency |-> nullopt,
   roman_numeral |-> nullopt,
   tm |-> nullopt,
   has_fm |-> FALSE,
   has_b |-> FALSE,
   has_exponent |-> FALSE]

\* a newly constructed FormatParser
FormatParser ==
  [state_ |-> "kStart",
   has_x_ |-> FALSE,
   has_9_ |-> FALSE,
   has_group_separator_ |-> FALSE,
   digit_count_ |-> 0,
   parsed_format_element_info_ |-> ParsedFormatElementInfo]

Signs == {"kSignS", "kSignMi", "kSignPr"}
Exponents == {"kExponentEeeeLower", "kExponentEeeeUpper"}
DigitXs == {"kDigitXLower", "kDigitXUpper"}
Digits == {"kDigit9", "kDigit0"} \cup DigitXs
\* the decimal points without 'D'
DecimalPoints_NoD == {"kDecimalPointDot", "kElementV"}
DecimalPoints == {"kDecimalPointDot", "kDecimalPointD", "kElementV"}
GroupSeparators == {"kGroupSeparatorComma", "kGroupSeparatorG"}
RomanNumerals == {"kRomanNumeralLower", "kRomanNumeralUpper"}
Tms == {"kTmLower", "kTmUpper", "kTmeLower", "kTmeUpper", "kTm9Lower",
        "kTm9Upper"}
Currencies == {"kCurrencyDollar", "kCurrencyCLower", "kCurrencyCUpper",
               "kCurrencyL"}
Flags == {"kCompactMode", "kElementB"} \cup Currencies

TmMessage == "'TM', 'TM9' or 'TME' cannot be combined with other format elements"
SignMessage == "There can be at most one of 'S', 'MI', or 'PR'"
GroupExponentMessage == "',' or 'G' cannot appear together with 'EEEE'"

\* OnStartState leaving state_ at kIntegerPart on a decimal point
OnStartState_PointStaysInteger(p, element) ==
  CASE element = "kSignS" ->
         Step([p EXCEPT !.parsed_format_element_info_.sign = element,
                        !.state_ = "kIntegerPart",
                        !.parsed_format_element_info_.sign_at_front = TRUE],
              OkStatus)
    [] element \in {"kSignMi", "kSignPr"} ->
         Step(p, FormatStringErrorBuilder(
                   "'" \o FormatElementToString(element)
                       \o "' can only appear after all digits and 'EEEE'"))
    [] element = "kDigit9" ->
         Step([p EXCEPT !.has_9_ = TRUE, !.state_ = "kIntegerPart"], OkStatus)
    [] element = "kDigit0" ->
         Step([p EXCEPT !.state_ = "kIntegerPart"], OkStatus)
    [] element \in DigitXs ->
         Step([p EXCEPT !.has_x_ = TRUE, !.state_ = "kHexadecimal"], OkStatus)
    [] element \in RomanNumerals ->
         Step([p EXCEPT !.parsed_format_element_info_.roman_numeral = element,
                        !.state_ = "kRomanNumeral"],
              OkStatus)
    [] element \in DecimalPoints ->
         Step([p EXCEPT !.parsed_format_element_info_.decimal_point = element,
                        !.parsed_format_element_info_.decimal_point_index =
                           Len(p.parsed_format_element_info_.elements) - 1,
                        !.state_ = "kIntegerPart"],
              OkStatus)
    [] element \in Tms ->
         Step([p EXCEPT !.parsed_format_element_info_.tm = element,
                        !.state_ = "kTextMinimal"],
              OkStatus)
    [] OTHER ->
         Step(p, FormatStringErrorBuilder(
                   "Unexpected '" \o FormatElementToString(element) \o "'"))

\* OnStartState taking the size of elements for the index of a leading
\* decimal point
OnStartState_PointIndexIsSize(p, element) ==
  CASE element = "kSignS" ->
         Step([p EXCEPT !.parsed_format_element_info_.sign = element,
                        !.state_ = "kIntegerPart",
                        !.parsed_format_element_info_.sign_at_front = TRUE],
              OkStatus)
    [] element \in {"kSignMi", "kSignPr"} ->
         Step(p, FormatStringErrorBuilder(
                   "'" \o FormatElementToString(element)
                       \o "' can only appear after all digits and 'EEEE'"))
    [] element = "kDigit9" ->
         Step([p EXCEPT !.has_9_ = TRUE, !.state_ = "kIntegerPart"], OkStatus)
    [] element = "kDigit0" ->
         Step([p EXCEPT !.state_ = "kIntegerPart"], OkStatus)
    [] element \in DigitXs ->
         Step([p EXCEPT !.has_x_ = TRUE, !.state_ = "kHexadecimal"], OkStatus)
    [] element \in RomanNumerals ->
         Step([p EXCEPT !.parsed_format_element_info_.roman_numeral = element,
                        !.state_ = "kRomanNumeral"],
              OkStatus)
    [] element \in DecimalPoints ->
         Step([p EXCEPT !.parsed_format_element_info_.decimal_point = element,
                        !.parsed_format_element_info_.decimal_point_index =
                           Len(p.parsed_format_element_info_.elements),
                        !.state_ = "kFractionalPart"],
              OkStatus)
    [] element \in Tms ->
         Step([p EXCEPT !.parsed_format_element_info_.tm = element,
                        !.state_ = "kTextMinimal"],
              OkStatus)
    [] OTHER ->
         Step(p, FormatStringErrorBuilder(
                   "Unexpected '" \o FormatElementToString(element) \o "'"))

\* FormatParser::OnStartState
OnStartState(p, element) ==
  CASE element = "kSignS" ->
         Step([p EXCEPT !.parsed_format_element_info_.sign = element,
                        !.state_ = "kIntegerPart",
                        !.parsed_format_element_info_.sign_at_front = TRUE],
              OkStatus)
    [] element \in {"kSignMi", "kSignPr"} ->
         Step(p, FormatStringErrorBuilder(
                   "'" \o FormatElementToString(element)
                       \o "' can only appear after all digits and 'EEEE'"))
    [] element = "kDigit9" ->
         Step([p EXCEPT !.has_9_ = TRUE, !.state_ = "kIntegerPart"], OkStatus)
    [] element = "kDigit0" ->
         Step([p EXCEPT !.state_ = "kIntegerPart"], OkStatus)
    [] element \in DigitXs ->
         Step([p EXCEPT !.has_x_ = TRUE, !.state_ = "kHexadecimal"], OkStatus)
    [] element \in RomanNumerals ->
         Step([p EXCEPT !.parsed_format_element_info_.roman_numeral = element,
                        !.state_ = "kRomanNumeral"],
              OkStatus)
    [] element \in DecimalPoints ->
         Step([p EXCEPT !.parsed_format_element_info_.decimal_point = element,
                        !.parsed_format_element_info_.decimal_point_index =
                           Len(p.parsed_format_element_info_.elements) - 1,
                        !.state_ = "kFractionalPart"],
              OkStatus)
    [] element \in Tms ->
         Step([p EXCEPT !.parsed_format_element_info_.tm = element,
                        !.state_ = "kTextMinimal"],
              OkStatus)
    [] OTHER ->
         Step(p, FormatStringErrorBuilder(
                   "Unexpected '" \o FormatElementToString(element) \o "'"))

\* the sign case without its test of sign.has_value()
OnSign_Unchecked(p, element) ==
  Step([p EXCEPT !.parsed_format_element_info_.sign = element,
                 !.state_ = "kAfterBackSign"],
       OkStatus)

\* the sign case shared by the integer, fractional, exponent and hexadecimal
\* states
OnSign(p, element) ==
  IF p.parsed_format_element_info_.sign # nullopt
  THEN Step(p, FormatStringErrorBuilder(SignMessage))
  ELSE Step([p EXCEPT !.parsed_format_element_info_.sign = element,
                      !.state_ = "kAfterBackSign"],
            OkStatus)

\* OnIntegerPartState testing has_group_separator_ but not has_9_ before it
\* turns to a hexadecimal format
OnIntegerPartState_NoNineTest(p, element) ==
  CASE element \in Signs -> OnSign(p, element)
    [] element \in Exponents ->
         IF p.has_group_separator_
         THEN Step(p, FormatStringErrorBuilder(GroupExponentMessage))
         ELSE Step([p EXCEPT !.state_ = "kAfterExponent",
                             !.parsed_format_element_info_.has_exponent = TRUE,
                             !.parsed_format_element_info_.decimal_point_index =
                                Len(p.parsed_format_element_info_.elements) - 1],
                   OkStatus)
    [] element \in DigitXs ->
         IF p.has_group_separator_
         THEN Step(p, FormatStringErrorBuilder(
                        "'X' cannot appear together with ',' or 'G'"))
         ELSE Step([p EXCEPT !.has_x_ = TRUE, !.state_ = "kHexadecimal"],
                   OkStatus)
    [] element = "kDigit9" -> Step([p EXCEPT !.has_9_ = TRUE], OkStatus)
    [] element = "kDigit0" -> Step(p, OkStatus)
    [] element \in GroupSeparators ->
         Step([p EXCEPT !.has_group_separator_ = TRUE], OkStatus)
    [] element \in DecimalPoints ->
         IF p.parsed_format_element_info_.decimal_point # nullopt
         THEN Step(p, RetCheckFailure(
                        "!parsed_format_element_info_.decimal_point.has_value()"))
         ELSE Step([p EXCEPT
                      !.parsed_format_element_info_.decimal_point = element,
                      !.parsed_format_element_info_.decimal_point_index =
                         Len(p.parsed_format_element_info_.elements) - 1,
                      !.state_ = "kFractionalPart"],
                   OkStatus)
    [] element \in Tms -> Step(p, FormatStringErrorBuilder(TmMessage))
    [] OTHER ->
         Step(p, FormatStringErrorBuilder(
                   "Unexpected '" \o FormatElementToString(element) \o "'"))

\* FormatParser::OnIntegerPartState
OnIntegerPartState(p, element) ==
  CASE element \in Signs -> OnSign(p, element)
    [] element \in Exponents ->
         IF p.has_group_separator_
         THEN Step(p, FormatStringErrorBuilder(GroupExponentMessage))
         ELSE Step([p EXCEPT !.state_ = "kAfterExponent",
                             !.parsed_format_element_info_.has_exponent = TRUE,
                             !.parsed_format_element_info_.decimal_point_index =
                                Len(p.parsed_format_element_info_.elements) - 1],
                   OkStatus)
    [] element \in DigitXs ->
         IF p.has_9_
         THEN Step(p, FormatStringErrorBuilder(
                        "'X' cannot appear together with '9'"))
         ELSE IF p.has_group_separator_
         THEN Step(p, FormatStringErrorBuilder(
                        "'X' cannot appear together with ',' or 'G'"))
         ELSE Step([p EXCEPT !.has_x_ = TRUE, !.state_ = "kHexadecimal"],
                   OkStatus)
    [] element = "kDigit9" -> Step([p EXCEPT !.has_9_ = TRUE], OkStatus)
    [] element = "kDigit0" -> Step(p, OkStatus)
    [] element \in GroupSeparators ->
         Step([p EXCEPT !.has_group_separator_ = TRUE], OkStatus)
    [] element \in DecimalPoints ->
         IF p.parsed_format_element_info_.decimal_point # nullopt
         THEN Step(p, RetCheckFailure(
                        "!parsed_format_element_info_.decimal_point.has_value()"))
         ELSE Step([p EXCEPT
                      !.parsed_format_element_info_.decimal_point = element,
                      !.parsed_format_element_info_.decimal_point_index =
                         Len(p.parsed_format_element_info_.elements) - 1,
                      !.state_ = "kFractionalPart"],
                   OkStatus)
    [] element \in Tms -> Step(p, FormatStringErrorBuilder(TmMessage))
    [] OTHER ->
         Step(p, FormatStringErrorBuilder(
                   "Unexpected '" \o FormatElementToString(element) \o "'"))

\* OnFractionalPartState without its case for a decimal point
OnFractionalPartState_NoPointCase(p, element) ==
  CASE element \in {"kDigit0", "kDigit9"} ->
         Step([p EXCEPT !.parsed_format_element_info_.scale = @ + 1], OkStatus)
    [] element \in DigitXs ->
         IF p.parsed_format_element_info_.decimal_point = nullopt
         THEN Step(p, BadOptionalAccess)
         ELSE Step(p, FormatStringErrorBuilder(
                        "'X' cannot appear together with '"
                          \o FormatElementToString(
                               p.parsed_format_element_info_.decimal_point)
                          \o "'"))
    [] element \in Exponents ->
         IF p.has_group_separator_
         THEN Step(p, FormatStringErrorBuilder(GroupExponentMessage))
         ELSE Step([p EXCEPT !.state_ = "kAfterExponent",
                             !.parsed_format_element_info_.has_exponent = TRUE],
                   OkStatus)
    [] element \in Signs -> OnSign(p, element)
    [] element \in GroupSeparators ->
         Step(p, FormatStringErrorBuilder(
                   "',' or 'G' cannot appear after '.', 'D' or 'V'"))
    [] OTHER ->
         Step(p, FormatStringErrorBuilder(
                   "Unexpected '" \o FormatElementToString(element) \o "'"))

\* FormatParser::OnFractionalPartState
OnFractionalPartState(p, element) ==
  CASE element \in {"kDigit0", "kDigit9"} ->
         Step([p EXCEPT !.parsed_format_element_info_.scale = @ + 1], OkStatus)
    [] element \in DigitXs ->
         IF p.parsed_format_element_info_.decimal_point = nullopt
         THEN Step(p, BadOptionalAccess)
         ELSE Step(p, FormatStringErrorBuilder(
                        "'X' cannot appear together with '"
                          \o FormatElementToString(
                               p.parsed_format_element_info_.decimal_point)
                          \o "'"))
    [] element \in Exponents ->
         IF p.has_group_separator_
         THEN Step(p, FormatStringErrorBuilder(GroupExponentMessage))
         ELSE Step([p EXCEPT !.state_ = "kAfterExponent",
                             !.parsed_format_element_info_.has_exponent = TRUE],
                   OkStatus)
    [] element \in Signs -> OnSign(p, element)
    [] element \in DecimalPoints ->
         Step(p, FormatStringErrorBuilder(
                   "There can be at most one of '.', 'D', or 'V'"))
    [] element \in GroupSeparators ->
         Step(p, FormatStringErrorBuilder(
                   "',' or 'G' cannot appear after '.', 'D' or 'V'"))
    [] OTHER ->
         Step(p, FormatStringErrorBuilder(
                   "Unexpected '" \o FormatElementToString(element) \o "'"))

\* OnAfterExponentState letting digits through
OnAfterExponentState_DigitsPass(p, element) ==
  CASE element \in Signs -> OnSign(p, element)
    [] element \in GroupSeparators ->
         Step(p, FormatStringErrorBuilder(GroupExponentMessage))
    [] element \in {"kDigit0", "kDigit9"} -> Step(p, OkStatus)
    [] OTHER ->
         Step(p, FormatStringErrorBuilder(
                   "'" \o FormatElementToString(element)
                       \o "' cannot appear after 'EEEE'"))

\* FormatParser::OnAfterExponentState
OnAfterExponentState(p, element) ==
  CASE element \in Signs -> OnSign(p, element)
    [] element \in GroupSeparators ->
         Step(p, FormatStringErrorBuilder(GroupExponentMessage))
    [] OTHER ->
         Step(p, FormatStringErrorBuilder(
                   "'" \o FormatElementToString(element)
                       \o "' cannot appear after 'EEEE'"))

\* OnAfterBackSignState with one message for the three signs
OnAfterBackSignState_OneMessage(p, element) ==
  CASE element \in Digits \cup Exponents ->
         IF p.parsed_format_element_info_.sign = nullopt
         THEN Step(p, BadOptionalAccess)
         ELSE Step(p, FormatStringErrorBuilder(
                  "'" \o FormatElementToString(
                           p.parsed_format_element_info_.sign)
                      \o "' can only appear after all digits and 'EEEE'"))
    [] OTHER ->
         Step(p, FormatStringErrorBuilder(
                   "Unexpected format element '"
                     \o FormatElementToString(element) \o "'"))

\* FormatParser::OnAfterBackSignState
OnAfterBackSignState(p, element) ==
  CASE element \in Digits \cup Exponents ->
         IF p.parsed_format_element_info_.sign = nullopt
         THEN Step(p, BadOptionalAccess)
         ELSE IF p.parsed_format_element_info_.sign = "kSignS"
         THEN Step(p, FormatStringErrorBuilder(
                  "'S' can only appear before or after all digits and 'EEEE'"))
         ELSE Step(p, FormatStringErrorBuilder(
                  "'" \o FormatElementToString(
                           p.parsed_format_element_info_.sign)
                      \o "' can only appear after all digits and 'EEEE'"))
    [] OTHER ->
         Step(p, FormatStringErrorBuilder(
                   "Unexpected format element '"
                     \o FormatElementToString(element) \o "'"))

\* OnHexadecimalState letting a '9' pass as the other digits do
OnHexadecimalState_NinePasses(p, element) ==
  CASE element \in {"kDigit0", "kDigit9"} \cup DigitXs -> Step(p, OkStatus)
    [] element \in Signs -> OnSign(p, element)
    [] OTHER ->
         Step(p, FormatStringErrorBuilder(
                   "'X' cannot appear together with '"
                     \o FormatElementToString(element) \o "'"))

\* OnHexadecimalState going back to the integer part on a '9'
OnHexadecimalState_BackToInteger(p, element) ==
  CASE element \in {"kDigit0"} \cup DigitXs -> Step(p, OkStatus)
    [] element = "kDigit9" ->
         Step([p EXCEPT !.state_ = "kIntegerPart"], OkStatus)
    [] element \in Signs -> OnSign(p, element)
    [] OTHER ->
         Step(p, FormatStringErrorBuilder(
                   "'X' cannot appear together with '"
                     \o FormatElementToString(element) \o "'"))

\* FormatParser::OnHexadecimalState
OnHexadecimalState(p, element) ==
  CASE element \in {"kDigit0"} \cup DigitXs -> Step(p, OkStatus)
    [] element \in Signs -> OnSign(p, element)
    [] OTHER ->
         Step(p, FormatStringErrorBuilder(
                   "'X' cannot appear together with '"
                     \o FormatElementToString(element) \o "'"))

\* ProcessFormatElement counting the 'X' placeholders only
ProcessFormatElement_CountsXOnly(p, element) ==
  IF element = "kCompactMode"
  THEN IF p.parsed_format_element_info_.has_fm
       THEN Step(p, FormatStringErrorBuilder("'FM' cannot be repeated"))
       ELSE Step([p EXCEPT !.parsed_format_element_info_.has_fm = TRUE],
                 OkStatus)
  ELSE IF element \in Currencies
  THEN IF p.parsed_format_element_info_.currency # nullopt
       THEN Step(p, FormatStringErrorBuilder(
                      "There can be at most one of '$', 'C' or 'L'"))
       ELSE Step([p EXCEPT !.parsed_format_element_info_.currency = element],
                 OkStatus)
  ELSE IF element = "kElementB"
  THEN IF p.parsed_format_element_info_.has_b
       THEN Step(p, FormatStringErrorBuilder("There can be at most one 'B'"))
       ELSE Step([p EXCEPT !.parsed_format_element_info_.has_b = TRUE],
                 OkStatus)
  ELSE LET q == IF element \in DigitXs
                THEN [p EXCEPT !.digit_count_ = @ + 1]
                ELSE p
       IN CASE q.state_ = "kStart" -> OnStartState(q, element)
            [] q.state_ = "kIntegerPart" -> OnIntegerPartState(q, element)
            [] q.state_ = "kFractionalPart" -> OnFractionalPartState(q, element)
            [] q.state_ = "kAfterExponent" -> OnAfterExponentState(q, element)
            [] q.state_ = "kAfterBackSign" -> OnAfterBackSignState(q, element)
            [] q.state_ = "kHexadecimal" -> OnHexadecimalState(q, element)
            [] q.state_ = "kTextMinimal" ->
                 Step(q, FormatStringErrorBuilder(TmMessage))
            [] q.state_ = "kRomanNumeral" ->
                 Step(q, FormatStringErrorBuilder(
                           "'RN' cannot appear together with '"
                             \o FormatElementToString(element) \o "'"))

\* ProcessFormatElement rejecting a currency element only when it repeats
\* the very element seen before
ProcessFormatElement_SameCurrencyOnly(p, element) ==
  IF element = "kCompactMode"
  THEN IF p.parsed_format_element_info_.has_fm
       THEN Step(p, FormatStringErrorBuilder("'FM' cannot be repeated"))
       ELSE Step([p EXCEPT !.parsed_format_element_info_.has_fm = TRUE],
                 OkStatus)
  ELSE IF element \in Currencies
  THEN IF p.parsed_format_element_info_.currency = element
       THEN Step(p, FormatStringErrorBuilder(
                      "There can be at most one of '$', 'C' or 'L'"))
       ELSE Step([p EXCEPT !.parsed_format_element_info_.currency = element],
                 OkStatus)
  ELSE IF element = "kElementB"
  THEN IF p.parsed_format_element_info_.has_b
       THEN Step(p, FormatStringErrorBuilder("There can be at most one 'B'"))
       ELSE Step([p EXCEPT !.parsed_format_element_info_.has_b = TRUE],
                 OkStatus)
  ELSE LET q == IF element \in Digits
                THEN [p EXCEPT !.digit_count_ = @ + 1]
                ELSE p
       IN CASE q.state_ = "kStart" -> OnStartState(q, element)
            [] q.state_ = "kIntegerPart" -> OnIntegerPartState(q, element)
            [] q.state_ = "kFractionalPart" -> OnFractionalPartState(q, element)
            [] q.state_ = "kAfterExponent" -> OnAfterExponentState(q, element)
            [] q.state_ = "kAfterBackSign" -> OnAfterBackSignState(q, element)
            [] q.state_ = "kHexadecimal" -> OnHexadecimalState(q, element)
            [] q.state_ = "kTextMinimal" ->
                 Step(q, FormatStringErrorBuilder(TmMessage))
            [] q.state_ = "kRomanNumeral" ->
                 Step(q, FormatStringErrorBuilder(
                           "'RN' cannot appear together with '"
                             \o FormatElementToString(element) \o "'"))

\* FormatParser::ProcessFormatElement
ProcessFormatElement(p, element) ==
  IF element = "kCompactMode"
  THEN IF p.parsed_format_element_info_.has_fm
       THEN Step(p, FormatStringErrorBuilder("'FM' cannot be repeated"))
       ELSE Step([p EXCEPT !.parsed_format_element_info_.has_fm = TRUE],
                 OkStatus)
  ELSE IF element \in Currencies
  THEN IF p.parsed_format_element_info_.currency # nullopt
       THEN Step(p, FormatStringErrorBuilder(
                      "There can be at most one of '$', 'C' or 'L'"))
       ELSE Step([p EXCEPT !.parsed_format_element_info_.currency = element],
                 OkStatus)
  ELSE IF element = "kElementB"
  THEN IF p.parsed_format_element_info_.has_b
       THEN Step(p, FormatStringErrorBuilder("There can be at most one 'B'"))
       ELSE Step([p EXCEPT !.parsed_format_element_info_.has_b = TRUE],
                 OkStatus)
  ELSE LET q == IF element \in Digits
                THEN [p EXCEPT !.digit_count_ = @ + 1]
                ELSE p
       IN CASE q.state_ = "kStart" -> OnStartState(q, element)
            [] q.state_ = "kIntegerPart" -> OnIntegerPartState(q, element)
            [] q.state_ = "kFractionalPart" -> OnFractionalPartState(q, element)
            [] q.state_ = "kAfterExponent" -> OnAfterExponentState(q, element)
            [] q.state_ = "kAfterBackSign" -> OnAfterBackSignState(q, element)
            [] q.state_ = "kHexadecimal" -> OnHexadecimalState(q, element)
            [] q.state_ = "kTextMinimal" ->
                 Step(q, FormatStringErrorBuilder(TmMessage))
            [] q.state_ = "kRomanNumeral" ->
                 Step(q, FormatStringErrorBuilder(
                           "'RN' cannot appear together with '"
                             \o FormatElementToString(element) \o "'"))

\* FinalValidate without its test of digit_count_ == 0
FinalValidate_NoDigitTest(p) ==
  LET info == p.parsed_format_element_info_ IN
  IF info.currency # nullopt /\ info.tm # nullopt
  THEN FormatStringErrorBuilder(TmMessage)
  ELSE IF info.currency # nullopt /\ p.has_x_
  THEN FormatStringErrorBuilder(
         "'X' cannot appear together with '"
           \o FormatElementToString(info.currency) \o "'")
  ELSE IF info.currency # nullopt /\ info.roman_numeral # nullopt
  THEN FormatStringErrorBuilder(
         "'RN' cannot appear together with '"
           \o FormatElementToString(info.currency) \o "'")
  ELSE IF info.has_b /\ info.tm # nullopt
  THEN FormatStringErrorBuilder(TmMessage)
  ELSE IF info.has_b /\ p.has_x_
  THEN FormatStringErrorBuilder("'X' cannot appear together with 'B'")
  ELSE IF info.has_b /\ info.roman_numeral # nullopt
  THEN FormatStringErrorBuilder("'RN' cannot appear together with 'B'")
  ELSE IF info.has_fm /\ info.tm # nullopt
  THEN FormatStringErrorBuilder(TmMessage)
  ELSE IF info.tm # nullopt \/ info.roman_numeral # nullopt
  THEN OkStatus
  ELSE IF p.has_x_ /\ p.digit_count_ > MaxHexDigits
  THEN FormatStringErrorBuilder("Max number of 'X' is 16")
  ELSE OkStatus

\* FinalValidate testing has_b before currency
FinalValidate_BFirst(p) ==
  LET info == p.parsed_format_element_info_ IN
  IF info.has_b /\ info.tm # nullopt
  THEN FormatStringErrorBuilder(TmMessage)
  ELSE IF info.has_b /\ p.has_x_
  THEN FormatStringErrorBuilder("'X' cannot appear together with 'B'")
  ELSE IF info.has_b /\ info.roman_numeral # nullopt
  THEN FormatStringErrorBuilder("'RN' cannot appear together with 'B'")
  ELSE IF info.currency # nullopt /\ info.tm # nullopt
  THEN FormatStringErrorBuilder(TmMessage)
  ELSE IF info.currency # nullopt /\ p.has_x_
  THEN FormatStringErrorBuilder(
         "'X' cannot appear together with '"
           \o FormatElementToString(info.currency) \o "'")
  ELSE IF info.currency # nullopt /\ info.roman_numeral # nullopt
  THEN FormatStringErrorBuilder(
         "'RN' cannot appear together with '"
           \o FormatElementToString(info.currency) \o "'")
  ELSE IF info.has_fm /\ info.tm # nullopt
  THEN FormatStringErrorBuilder(TmMessage)
  ELSE IF info.tm # nullopt \/ info.roman_numeral # nullopt
  THEN OkStatus
  ELSE IF p.digit_count_ = 0
  THEN FormatStringErrorBuilder(
         "Format string must contain at least one of 'X', '0' or '9'")
  ELSE IF p.has_x_ /\ p.digit_count_ > MaxHexDigits
  THEN FormatStringErrorBuilder("Max number of 'X' is 16")
  ELSE OkStatus

\* FinalValidate without the test of FM against a text-minimal element
FinalValidate_FmWithTm(p) ==
  LET info == p.parsed_format_element_info_ IN
  IF info.currency # nullopt /\ info.tm # nullopt
  THEN FormatStringErrorBuilder(TmMessage)
  ELSE IF info.currency # nullopt /\ p.has_x_
  THEN FormatStringErrorBuilder(
         "'X' cannot appear together with '"
           \o FormatElementToString(info.currency) \o "'")
  ELSE IF info.currency # nullopt /\ info.roman_numeral # nullopt
  THEN FormatStringErrorBuilder(
         "'RN' cannot appear together with '"
           \o FormatElementToString(info.currency) \o "'")
  ELSE IF info.has_b /\ info.tm # nullopt
  THEN FormatStringErrorBuilder(TmMessage)
  ELSE IF info.has_b /\ p.has_x_
  THEN FormatStringErrorBuilder("'X' cannot appear together with 'B'")
  ELSE IF info.has_b /\ info.roman_numeral # nullopt
  THEN FormatStringErrorBuilder("'RN' cannot appear together with 'B'")
  ELSE IF info.tm # nullopt \/ info.roman_numeral # nullopt
  THEN OkStatus
  ELSE IF p.digit_count_ = 0
  THEN FormatStringErrorBuilder(
         "Format string must contain at least one of 'X', '0' or '9'")
  ELSE IF p.has_x_ /\ p.digit_count_ > MaxHexDigits
  THEN FormatStringErrorBuilder("Max number of 'X' is 16")
  ELSE OkStatus

\* FormatParser::FinalValidate
FinalValidate(p) ==
  LET info == p.parsed_format_element_info_ IN
  IF info.currency # nullopt /\ info.tm # nullopt
  THEN FormatStringErrorBuilder(TmMessage)
  ELSE IF info.currency # nullopt /\ p.has_x_
  THEN FormatStringErrorBuilder(
         "'X' cannot appear together with '"
           \o FormatElementToString(info.currency) \o "'")
  ELSE IF info.currency # nullopt /\ info.roman_numeral # nullopt
  THEN FormatStringErrorBuilder(
         "'RN' cannot appear together with '"
           \o FormatElementToString(info.currency) \o "'")
  ELSE IF info.has_b /\ info.tm # nullopt
  THEN FormatStringErrorBuilder(TmMessage)
  ELSE IF info.has_b /\ p.has_x_
  THEN FormatStringErrorBuilder("'X' cannot appear together with 'B'")
  ELSE IF info.has_b /\ info.roman_numeral # nullopt
  THEN FormatStringErrorBuilder("'RN' cannot appear together with 'B'")
  ELSE IF info.has_fm /\ info.tm # nullopt
  THEN FormatStringErrorBuilder(TmMessage)
  ELSE IF info.tm # nullopt \/ info.roman_numeral # nullopt
  THEN OkStatus
  ELSE IF p.digit_count_ = 0
  THEN FormatStringErrorBuilder(
         "Format string must contain at least one of 'X', '0' or '9'")
  ELSE IF p.has_x_ /\ p.digit_count_ > MaxHexDigits
  THEN FormatStringErrorBuilder("Max number of 'X' is 16")
  ELSE OkStatus

\* the push switch with a case for 'B'
PushElement_PushesB(info, element) ==
  IF element = "kDigit0"
  THEN [info EXCEPT
          !.elements = Append(@, element),
          !.index_of_first_zero =
             IF ~@.has_value
             THEN [has_value |-> TRUE,
                   value |-> Len(Append(info.elements, element)) - 1]
             ELSE @]
  ELSE IF element \in DigitXs \cup {"kDigit9", "kElementB"} \cup DecimalPoints
                        \cup GroupSeparators \cup Exponents
  THEN [info EXCEPT !.elements = Append(@, element)]
  ELSE info

\* the elements.push_back switch at the top of Parse's loop body
PushElement(info, element) ==
  IF element = "kDigit0"
  THEN [info EXCEPT
          !.elements = Append(@, element),
          !.index_of_first_zero =
             IF ~@.has_value
             THEN [has_value |-> TRUE,
                   value |-> Len(Append(info.elements, element)) - 1]
             ELSE @]
  ELSE IF element \in DigitXs \cup {"kDigit9"} \cup DecimalPoints
                        \cup GroupSeparators \cup Exponents
  THEN [info EXCEPT !.elements = Append(@, element)]
  ELSE info

\* erase taking n + 1 elements
EraseFront_OneMore(elements, n) == SubSeq(elements, n + 2, Len(elements))

\* erase taking the n elements from the back
EraseFront_FromBack(elements, n) == SubSeq(elements, 1, Len(elements) - n)

\* elements.erase(elements.begin(), elements.begin() + n)
EraseFront(elements, n) == SubSeq(elements, n + 1, Len(elements))

\* the tail of Parse counting every digit as an integer digit
SetOutputType_AllDigitsInteger(p) ==
  LET info == p.parsed_format_element_info_ IN
  IF info.tm # nullopt
  THEN [info EXCEPT !.output_type = "kTextMinimal"]
  ELSE IF info.roman_numeral # nullopt
  THEN [info EXCEPT !.output_type = "kRomanNumeral"]
  ELSE IF p.has_x_
  THEN [info EXCEPT !.output_type = "kHexadecimal"]
  ELSE LET a == [info EXCEPT
                   !.output_type = "kDecimal",
                   !.num_integer_digit = p.digit_count_]
           b == IF a.decimal_point_index = npos
                THEN [a EXCEPT !.decimal_point_index = Len(a.elements)]
                ELSE a
       IN IF b.has_exponent /\ b.decimal_point_index >= 2
          THEN [b EXCEPT
                  !.elements = EraseFront(@, b.decimal_point_index - 1),
                  !.decimal_point_index = 1]
          ELSE b

\* the tail of Parse leaving every integer digit of an exponent format in
\* elements
SetOutputType_NoErase(p) ==
  LET info == p.parsed_format_element_info_ IN
  IF info.tm # nullopt
  THEN [info EXCEPT !.output_type = "kTextMinimal"]
  ELSE IF info.roman_numeral # nullopt
  THEN [info EXCEPT !.output_type = "kRomanNumeral"]
  ELSE IF p.has_x_
  THEN [info EXCEPT !.output_type = "kHexadecimal"]
  ELSE LET a == [info EXCEPT
                   !.output_type = "kDecimal",
                   !.num_integer_digit = p.digit_count_ - info.scale]
           b == IF a.decimal_point_index = npos
                THEN [a EXCEPT !.decimal_point_index = Len(a.elements)]
                ELSE a
       IN b

\* the tail of Parse leaving decimal_point_index unset when the format has
\* neither a decimal point nor EEEE
SetOutputType_KeepsNpos(p) ==
  LET info == p.parsed_format_element_info_ IN
  IF info.tm # nullopt
  THEN [info EXCEPT !.output_type = "kTextMinimal"]
  ELSE IF info.roman_numeral # nullopt
  THEN [info EXCEPT !.output_type = "kRomanNumeral"]
  ELSE IF p.has_x_
  THEN [info EXCEPT !.output_type = "kHexadecimal"]
  ELSE LET a == [info EXCEPT
                   !.output_type = "kDecimal",
                   !.num_integer_digit = p.digit_count_ - info.scale]
           b == a
       IN IF b.has_exponent /\ b.decimal_point_index >= 2
          THEN [b EXCEPT
                  !.elements = EraseFront(@, b.decimal_point_index - 1),
                  !.decimal_point_index = 1]
          ELSE b

\* the tail of Parse, after FinalValidate has passed: the output type and,
\* for a decimal format, num_integer_digit, decimal_point_index and the
\* exponent rewrite
SetOutputType(p) ==
  LET info == p.parsed_format_element_info_ IN
  IF info.tm # nullopt
  THEN [info EXCEPT !.output_type = "kTextMinimal"]
  ELSE IF info.roman_numeral # nullopt
  THEN [info EXCEPT !.output_type = "kRomanNumeral"]
  ELSE IF p.has_x_
  THEN [info EXCEPT !.output_type = "kHexadecimal"]
  ELSE LET a == [info EXCEPT
                   !.output_type = "kDecimal",
                   !.num_integer_digit = p.digit_count_ - info.scale]
           b == IF a.decimal_point_index = npos
                THEN [a EXCEPT !.decimal_point_index = Len(a.elements)]
                ELSE a
       IN IF b.has_exponent /\ b.decimal_point_index >= 2
          THEN [b EXCEPT
                  !.elements = EraseFront(@, b.decimal_point_index - 1),
                  !.decimal_point_index = 1]
          ELSE b

----------------------------------------------------------------------------
(* The renderer.  Numbers and outputs are strings of characters. *)

DigitChars == {"0", "1", "2", "3", "4", "5", "6", "7", "8", "9"}

\* a default-constructed ParsedNumberString
ParsedNumberString ==
  [negative |-> FALSE, is_infinity |-> FALSE, is_nan |-> FALSE,
   integer_part |-> << >>, fractional_part |-> << >>, exponent |-> << >>]

\* str.find_first_of(c): the 0-based position of the first c, or npos
FindFirstOf(str, c) ==
  IF \E i \in 1..Len(str) : str[i] = c
  THEN (CHOOSE i \in 1..Len(str) :
          str[i] = c /\ \A j \in 1..(i - 1) : str[j] # c) - 1
  ELSE npos

\* str.substr(pos, count), pos 0-based
Substr(str, pos, count) == SubSeq(str, pos + 1, Min(pos + count, Len(str)))

\* str.substr(pos)
SubstrFrom(str, pos) == SubSeq(str, pos + 1, Len(str))

AllDigits(str) == \A i \in 1..Len(str) : str[i] \in DigitChars

\* RE2::FullMatch(str, "-?[0-9]+\\.[0-9]*(e(\\+|-)[0-9]+)?")
FullMatchReal(str) ==
  LET body == IF str # << >> /\ str[1] = "-" THEN SubstrFrom(str, 1) ELSE str
      dot == FindFirstOf(body, ".")
      rest == SubstrFrom(body, dot + 1)
      e == FindFirstOf(rest, "e")
  IN /\ dot # npos
     /\ dot >= 1
     /\ AllDigits(Substr(body, 0, dot))
     /\ IF e = npos
        THEN AllDigits(rest)
        ELSE /\ AllDigits(Substr(rest, 0, e))
             /\ Len(rest) >= e + 3
             /\ rest[e + 2] \in {"+", "-"}
             /\ AllDigits(SubstrFrom(rest, e + 2))

\* ParseFormattedRealNumber taking the exponent from after its sign
ParseFormattedRealNumber_UnsignedExponent(number_string) ==
  IF number_string = <<"i", "n", "f">>
  THEN [status |-> OkStatus,
        n |-> [ParsedNumberString EXCEPT !.is_infinity = TRUE]]
  ELSE IF number_string = <<"-", "i", "n", "f">>
  THEN [status |-> OkStatus,
        n |-> [ParsedNumberString EXCEPT !.negative = TRUE,
                                         !.is_infinity = TRUE]]
  ELSE IF number_string = <<"n", "a", "n">>
  THEN [status |-> OkStatus, n |-> [ParsedNumberString EXCEPT !.is_nan = TRUE]]
  ELSE IF ~FullMatchReal(number_string)
  THEN [status |-> RetCheckFailure("RE2::FullMatch"), n |-> ParsedNumberString]
  ELSE
    LET decimal_point_pos == FindFirstOf(number_string, ".")
        e_pos == FindFirstOf(number_string, "e")
        exponent == IF e_pos # npos
                    THEN SubstrFrom(number_string, e_pos + 2)
                    ELSE << >>
        str == IF e_pos # npos
               THEN Substr(number_string, 0, e_pos)
               ELSE number_string
        fractional_part == SubstrFrom(str, decimal_point_pos + 1)
        negative == str[1] = "-"
        integer_part == IF negative
                        THEN Substr(str, 1, decimal_point_pos - 1)
                        ELSE Substr(str, 0, decimal_point_pos)
    IN [status |-> OkStatus,
        n |-> [negative |-> negative, is_infinity |-> FALSE, is_nan |-> FALSE,
               integer_part |-> IF integer_part = <<"0">> THEN << >>
                                ELSE integer_part,
               fractional_part |-> fractional_part,
               exponent |-> exponent]]

\* ParseFormattedRealNumber
ParseFormattedRealNumber(number_string) ==
  IF number_string = <<"i", "n", "f">>
  THEN [status |-> OkStatus,
        n |-> [ParsedNumberString EXCEPT !.is_infinity = TRUE]]
  ELSE IF number_string = <<"-", "i", "n", "f">>
  THEN [status |-> OkStatus,
        n |-> [ParsedNumberString EXCEPT !.negative = TRUE,
                                         !.is_infinity = TRUE]]
  ELSE IF number_string = <<"n", "a", "n">>
  THEN [status |-> OkStatus, n |-> [ParsedNumberString EXCEPT !.is_nan = TRUE]]
  ELSE IF ~FullMatchReal(number_string)
  THEN [status |-> RetCheckFailure("RE2::FullMatch"), n |-> ParsedNumberString]
  ELSE
    LET decimal_point_pos == FindFirstOf(number_string, ".")
        e_pos == FindFirstOf(number_string, "e")
        exponent == IF e_pos # npos
                    THEN SubstrFrom(number_string, e_pos + 1)
                    ELSE << >>
        str == IF e_pos # npos
               THEN Substr(number_string, 0, e_pos)
               ELSE number_string
        fractional_part == SubstrFrom(str, decimal_point_pos + 1)
        negative == str[1] = "-"
        integer_part == IF negative
                        THEN Substr(str, 1, decimal_point_pos - 1)
                        ELSE Substr(str, 0, decimal_point_pos)
    IN [status |-> OkStatus,
        n |-> [negative |-> negative, is_infinity |-> FALSE, is_nan |-> FALSE,
               integer_part |-> IF integer_part = <<"0">> THEN << >>
                                ELSE integer_part,
               fractional_part |-> fractional_part,
               exponent |-> exponent]]

\* the overflow test letting one digit too many through
Overflow_OneDigitLate(info, n) ==
  Len(n.integer_part) > info.num_integer_digit + 1

\* the overflow test of GenerateFractionalPart and FormatIntegerPartOfDecimal
Overflow(info, n) == Len(n.integer_part) > info.num_integer_digit

\* the loop of GenerateFractionalPart from format_index on
RECURSIVE FractionalLoop(_, _, _, _, _)
FractionalLoop(info, n, format_index, fractional_part_index, result) ==
  IF ~(format_index < Len(info.elements))
  THEN [status |-> OkStatus, text |-> result]
  ELSE
    LET element == info.elements[format_index + 1] IN
    CASE element \in {"kDecimalPointDot", "kDecimalPointD"} ->
           FractionalLoop(info, n, format_index + 1, fractional_part_index,
                          Append(result, "."))
      [] element = "kElementV" ->
           FractionalLoop(info, n, format_index + 1, fractional_part_index,
                          result)
      [] element \in {"kDigit9", "kDigit0"} ->
           FractionalLoop(info, n, format_index + 1, fractional_part_index + 1,
             IF Overflow(info, n)
             THEN Append(result, "#")
             ELSE IF fractional_part_index < Len(n.fractional_part)
             THEN Append(result, n.fractional_part[fractional_part_index + 1])
             ELSE result)
      [] element = "kExponentEeeeLower" ->
           FractionalLoop(info, n, format_index + 1, fractional_part_index,
             IF Overflow(info, n)
             THEN result \o <<"#", "#", "#", "#">>
             ELSE result \o <<"e">> \o n.exponent)
      [] element = "kExponentEeeeUpper" ->
           FractionalLoop(info, n, format_index + 1, fractional_part_index,
             IF Overflow(info, n)
             THEN result \o <<"#", "#", "#", "#">>
             ELSE result \o <<"E">> \o n.exponent)
      [] OTHER ->
           [status |-> RetCheckFailure(
                         "Should never happen. Unexpected format element"),
            text |-> result]

\* GenerateFractionalPart writing a '.' for 'V'
GenerateFractionalPart_VAsPoint(info, n) ==
  FractionalLoop(
    [info EXCEPT !.elements =
       [i \in DOMAIN @ |->
          IF @[i] = "kElementV" THEN "kDecimalPointDot" ELSE @[i]]],
    n, info.decimal_point_index, 0, << >>)

\* GenerateFractionalPart
GenerateFractionalPart(info, n) ==
  FractionalLoop(info, n, info.decimal_point_index, 0, << >>)

Reverse(str) == [i \in 1..Len(str) |-> str[Len(str) + 1 - i]]

\* the loop of FormatIntegerPartOfDecimal from format_index down; result is
\* the output generated so far, backward
RECURSIVE IntegerLoop(_, _, _, _, _, _)
IntegerLoop(info, n, integer_part, format_index, integer_part_index, result) ==
  IF ~(format_index >= 0)
     \/ (integer_part_index < 0
         /\ ~(info.index_of_first_zero.has_value
              /\ format_index >= info.index_of_first_zero.value))
  THEN [status |-> OkStatus, text |-> Reverse(result),
        left_padding_size |-> format_index + 1]
  ELSE
    LET element == info.elements[format_index + 1] IN
    CASE element \in {"kDigit0", "kDigit9"} ->
           IntegerLoop(info, n, integer_part, format_index - 1,
                       integer_part_index - 1,
             IF Overflow(info, n)
             THEN Append(result, "#")
             ELSE Append(result,
                         IF integer_part_index >= 0
                         THEN integer_part[integer_part_index + 1]
                         ELSE "0"))
      [] element \in GroupSeparators ->
           IntegerLoop(info, n, integer_part, format_index - 1,
                       integer_part_index, Append(result, ","))
      [] OTHER ->
           [status |-> RetCheckFailure(
                         "Should never happen. Unexpected format element"),
            text |-> result, left_padding_size |-> 0]

\* FormatIntegerPartOfDecimal going on to the first slot whatever the format
FormatIntegerPartOfDecimal_NeverStops(info, n) ==
  LET integer_part == IF n.integer_part # << >> THEN n.integer_part
                      ELSE <<"0">>
  IN IntegerLoop([info EXCEPT !.index_of_first_zero =
                                 [has_value |-> TRUE, value |-> 0]], n,
                 integer_part, info.decimal_point_index - 1,
                 Len(integer_part) - 1, << >>)

\* FormatIntegerPartOfDecimal stopping at the last digit of the value, a '0'
\* in the format or not
FormatIntegerPartOfDecimal_NoLeadingZeros(info, n) ==
  LET integer_part == IF n.integer_part # << >> THEN n.integer_part
                      ELSE <<"0">>
  IN IntegerLoop([info EXCEPT !.index_of_first_zero.has_value = FALSE], n,
                 integer_part, info.decimal_point_index - 1,
                 Len(integer_part) - 1, << >>)

\* FormatIntegerPartOfDecimal
FormatIntegerPartOfDecimal(info, n) ==
  LET integer_part == IF n.integer_part # << >> THEN n.integer_part
                      ELSE <<"0">>
  IN IntegerLoop(info, n, integer_part, info.decimal_point_index - 1,
                 Len(integer_part) - 1, << >>)

\* GenerateCurrencyOutput
GenerateCurrencyOutput(info) ==
  IF info.currency = nullopt
  THEN [status |-> OkStatus, text |-> << >>]
  ELSE CASE info.currency \in {"kCurrencyDollar", "kCurrencyL"} ->
              [status |-> OkStatus, text |-> <<"$">>]
         [] info.currency = "kCurrencyCLower" ->
              [status |-> OkStatus, text |-> <<"u", "s", "d">>]
         [] info.currency = "kCurrencyCUpper" ->
              [status |-> OkStatus, text |-> <<"U", "S", "D">>]
         [] OTHER ->
              [status |-> RetCheckFailure(
                            "Should never happen. Unexpected format element"),
               text |-> << >>]

\* GenerateSignOutput writing nothing for a positive value when the format
\* has no sign
GenerateSignOutput_NoSpace(negative, info) ==
  IF info.sign # nullopt
  THEN CASE info.sign = "kSignS" ->
              IF info.sign_at_front
              THEN [status |-> OkStatus,
                    prefix |-> IF negative THEN <<"-">> ELSE <<"+">>,
                    suffix |-> << >>]
              ELSE [status |-> OkStatus,
                    prefix |-> << >>,
                    suffix |-> IF negative THEN <<"-">> ELSE <<"+">>]
         [] info.sign = "kSignMi" ->
              [status |-> OkStatus,
               prefix |-> << >>,
               suffix |-> IF negative THEN <<"-">> ELSE <<" ">>]
         [] info.sign = "kSignPr" ->
              [status |-> OkStatus,
               prefix |-> IF negative THEN <<"<">> ELSE <<" ">>,
               suffix |-> IF negative THEN <<">">> ELSE <<" ">>]
         [] OTHER ->
              [status |-> RetCheckFailure(
                            "Should never happen. The sign element is:"),
               prefix |-> << >>, suffix |-> << >>]
  ELSE [status |-> OkStatus,
        prefix |-> IF negative THEN <<"-">> ELSE << >>,
        suffix |-> << >>]

\* GenerateSignOutput
GenerateSignOutput(negative, info) ==
  IF info.sign # nullopt
  THEN CASE info.sign = "kSignS" ->
              IF info.sign_at_front
              THEN [status |-> OkStatus,
                    prefix |-> IF negative THEN <<"-">> ELSE <<"+">>,
                    suffix |-> << >>]
              ELSE [status |-> OkStatus,
                    prefix |-> << >>,
                    suffix |-> IF negative THEN <<"-">> ELSE <<"+">>]
         [] info.sign = "kSignMi" ->
              [status |-> OkStatus,
               prefix |-> << >>,
               suffix |-> IF negative THEN <<"-">> ELSE <<" ">>]
         [] info.sign = "kSignPr" ->
              [status |-> OkStatus,
               prefix |-> IF negative THEN <<"<">> ELSE <<" ">>,
               suffix |-> IF negative THEN <<">">> ELSE <<" ">>]
         [] OTHER ->
              [status |-> RetCheckFailure(
                            "Should never happen. The sign element is:"),
               prefix |-> << >>, suffix |-> << >>]
  ELSE [status |-> OkStatus,
        prefix |-> IF negative THEN <<"-">> ELSE <<" ">>,
        suffix |-> << >>]

\* a left padding one space short
Spaces_OneShort(k) == [i \in 1..(k - 1) |-> " "]

Spaces(k) == [i \in 1..k |-> " "]

\* what a step of the renderer hands back
Rendered(st, text) == [status |-> st, text |-> text]

\* the test without its case of a '0' in the integer part of the format
GenerateIntegerPart_NoZeroCase(info, n) ==
  \/ n.integer_part # << >>
  \/ info.has_exponent
  \/ n.fractional_part = << >>

\* the test of FormatAsDecimalInternal for generating the integer part
GenerateIntegerPart(info, n) ==
  \/ n.integer_part # << >>
  \/ info.has_exponent
  \/ (info.index_of_first_zero.has_value
      /\ info.index_of_first_zero.value < info.decimal_point_index)
  \/ n.fractional_part = << >>

\* FormatAsDecimalInternal putting the currency before the sign
FormatAsDecimalInternal_CurrencyFirst(info, n) ==
  IF n.is_infinity \/ n.is_nan
  THEN Rendered(UnimplementedErrorBuilder("INF/NAN is not supported yet"),
                << >>)
  ELSE IF info.has_b \/ info.has_fm
  THEN Rendered(UnimplementedErrorBuilder(
                  "'B', 'FM', sign and currency are not implemented yet"),
                << >>)
  ELSE
    LET fractional_part == GenerateFractionalPart(info, n)
        integer_part ==
          IF info.num_integer_digit > 0 /\ GenerateIntegerPart(info, n)
          THEN FormatIntegerPartOfDecimal(info, n)
          ELSE [status |-> OkStatus, text |-> << >>,
                left_padding_size |-> info.decimal_point_index]
        currency_output == GenerateCurrencyOutput(info)
        sign_output == GenerateSignOutput(n.negative, info)
    IN IF fractional_part.status # OkStatus
       THEN Rendered(fractional_part.status, << >>)
       ELSE IF integer_part.status # OkStatus
       THEN Rendered(integer_part.status, << >>)
       ELSE IF currency_output.status # OkStatus
       THEN Rendered(currency_output.status, << >>)
       ELSE IF sign_output.status # OkStatus
       THEN Rendered(sign_output.status, << >>)
       ELSE Rendered(OkStatus,
              Spaces(integer_part.left_padding_size) \o currency_output.text
                \o sign_output.prefix \o integer_part.text
                \o fractional_part.text \o sign_output.suffix)

\* FormatAsDecimalInternal rendering a format with FM as it does one without
FormatAsDecimalInternal_FmRendered(info, n) ==
  IF n.is_infinity \/ n.is_nan
  THEN Rendered(UnimplementedErrorBuilder("INF/NAN is not supported yet"),
                << >>)
  ELSE IF info.has_b
  THEN Rendered(UnimplementedErrorBuilder(
                  "'B', 'FM', sign and currency are not implemented yet"),
                << >>)
  ELSE
    LET fractional_part == GenerateFractionalPart(info, n)
        integer_part ==
          IF info.num_integer_digit > 0 /\ GenerateIntegerPart(info, n)
          THEN FormatIntegerPartOfDecimal(info, n)
          ELSE [status |-> OkStatus, text |-> << >>,
                left_padding_size |-> info.decimal_point_index]
        currency_output == GenerateCurrencyOutput(info)
        sign_output == GenerateSignOutput(n.negative, info)
    IN IF fractional_part.status # OkStatus
       THEN Rendered(fractional_part.status, << >>)
       ELSE IF integer_part.status # OkStatus
       THEN Rendered(integer_part.status, << >>)
       ELSE IF currency_output.status # OkStatus
       THEN Rendered(currency_output.status, << >>)
       ELSE IF sign_output.status # OkStatus
       THEN Rendered(sign_output.status, << >>)
       ELSE Rendered(OkStatus,
              Spaces(integer_part.left_padding_size) \o sign_output.prefix
                \o currency_output.text \o integer_part.text
                \o fractional_part.text \o sign_output.suffix)

\* FormatAsDecimalInternal
FormatAsDecimalInternal(info, n) ==
  IF n.is_infinity \/ n.is_nan
  THEN Rendered(UnimplementedErrorBuilder("INF/NAN is not supported yet"),
                << >>)
  ELSE IF info.has_b \/ info.has_fm
  THEN Rendered(UnimplementedErrorBuilder(
                  "'B', 'FM', sign and currency are not implemented yet"),
                << >>)
  ELSE
    LET fractional_part == GenerateFractionalPart(info, n)
        integer_part ==
          IF info.num_integer_digit > 0 /\ GenerateIntegerPart(info, n)
          THEN FormatIntegerPartOfDecimal(info, n)
          ELSE [status |-> OkStatus, text |-> << >>,
                left_padding_size |-> info.decimal_point_index]
        currency_output == GenerateCurrencyOutput(info)
        sign_output == GenerateSignOutput(n.negative, info)
    IN IF fractional_part.status # OkStatus
       THEN Rendered(fractional_part.status, << >>)
       ELSE IF integer_part.status # OkStatus
       THEN Rendered(integer_part.status, << >>)
       ELSE IF currency_output.status # OkStatus
       THEN Rendered(currency_output.status, << >>)
       ELSE IF sign_output.status # OkStatus
       THEN Rendered(sign_output.status, << >>)
       ELSE Rendered(OkStatus,
              Spaces(integer_part.left_padding_size) \o sign_output.prefix
                \o currency_output.text \o integer_part.text
                \o fractional_part.text \o sign_output.suffix)

----------------------------------------------------------------------------
(* The input: the characters of the format string the tokenizer looks at. *)

\* how many characters GetFormatElement may read of a string starting with c
Reach(c) ==
  CASE ToUpper(c) \in {"M", "P", "R", "F"} -> 2
    [] ToUpper(c) = "T" -> 3
    [] ToUpper(c) = "E" -> 4
    [] OTHER -> 1

\* the characters explored after a first character c that starts a
\* multi-character format element: the spellings of the element in both
\* cases and some that do not spell it
Continuations(c) ==
  CASE ToUpper(c) = "M" -> {<<"I">>, <<"i">>, <<"9">>}
    [] ToUpper(c) = "P" -> {<<"R">>, <<"r">>, <<"9">>}
    [] ToUpper(c) = "R" -> {<<"N">>, <<"n">>, <<"9">>}
    [] ToUpper(c) = "F" -> {<<"M">>, <<"m">>, <<"9">>}
    [] ToUpper(c) = "T" ->
         {<<"M", "9">>, <<"m", "9">>, <<"M", "E">>, <<"M", "e">>,
          <<"M", "0">>, <<"m", "S">>, <<"M", "M">>, <<"9", "9">>}
    [] ToUpper(c) = "E" ->
         {<<"E", "E", "E">>, <<"e", "e", "e">>, <<"e", "E", "e">>,
          <<"E", "E", "9">>, <<"9", "9", "9">>}
    [] OTHER -> {<< >>}

\* the strings of n characters over the characters cs that the tokenizer may
\* be shown at a position with n characters left to read
Lookaheads(cs, n) ==
  {w \in UNION {{SubSeq(<<c>> \o t, 1, Min(n, Reach(c))) :
                   t \in Continuations(c)} : c \in cs} :
     \A i \in 1..Len(w) : w[i] \in cs}

\* one string agrees with the other on the positions both have
Agree(u, w) == \A i \in 1..Min(Len(u), Len(w)) : u[i] = w[i]

\* format.substr(index), as far as its characters are fixed
Known == SubSeq(format, index + 1, Len(format))

\* format with the characters of w fixed at position index
Fix(w) == IF Len(w) > Len(Known) THEN SubSeq(format, 1, index) \o w ELSE format

----------------------------------------------------------------------------
(* Parse. *)

\* the length check, off by one
TooLong_OffByOne(format_size, width) == format_size > width + 1

\* the length check of Parse
TooLong(format_size, width) == format_size > width

\* FormatParser::Parse, up to its loop
ParseBegin ==
  /\ pc = "Parse"
  /\ IF TooLong(size, max_width)
     THEN /\ status' = FormatStringErrorBuilder(
                         "Format string too long; limit " \o ToString(max_width))
          /\ raised' = "Parse"
          /\ pc' = "Return"
          /\ UNCHANGED <<parser, index>>
     ELSE /\ parser' = [parser EXCEPT
                          !.parsed_format_element_info_.decimal_point_index = npos]
          /\ index' = 0
          /\ pc' = "ParseLoop"
          /\ UNCHANGED <<status, raised>>
  /\ UNCHANGED <<alphabet, max_width, calls, strings, call, tokens,
                 v_is_null, results>>

\* the loop body going on to the next element after ProcessFormatElement
\* has returned an error
ParseElement_GoesOn(str) ==
  LET got == GetFormatElement(str) IN
  IF got.element # nullopt
  THEN LET pushed == [parser EXCEPT !.parsed_format_element_info_ =
                                       PushElement(@, got.element)]
           done == ProcessFormatElement(pushed, got.element)
       IN /\ index' = index + got.length
          /\ tokens' = Append(tokens, got.element)
          /\ parser' = done.parser
          /\ status' = done.status
          /\ raised' = IF done.status = OkStatus THEN raised
                       ELSE "ProcessFormatElement"
          /\ pc' = "ParseLoop"
  ELSE /\ status' = FormatStringErrorBuilder(
                      "Invalid format element '" \o str[1] \o "'")
       /\ raised' = "GetFormatElement"
       /\ pc' = "Return"
       /\ UNCHANGED <<index, tokens, parser>>

\* one iteration of Parse's loop on the string str = format.substr(index)
ParseElement(str) ==
  LET got == GetFormatElement(str) IN
  IF got.element # nullopt
  THEN LET pushed == [parser EXCEPT !.parsed_format_element_info_ =
                                       PushElement(@, got.element)]
           done == ProcessFormatElement(pushed, got.element)
       IN /\ index' = index + got.length
          /\ tokens' = Append(tokens, got.element)
          /\ parser' = done.parser
          /\ status' = done.status
          /\ raised' = IF done.status = OkStatus THEN raised
                       ELSE "ProcessFormatElement"
          /\ pc' = IF done.status = OkStatus THEN "ParseLoop" ELSE "Return"
  ELSE /\ status' = FormatStringErrorBuilder(
                      "Invalid format element '" \o str[1] \o "'")
       /\ raised' = "GetFormatElement"
       /\ pc' = "Return"
       /\ UNCHANGED <<index, tokens, parser>>

\* the characters of cs that are c in either case
CasesOf(cs, c) == {d \in cs : ToUpper(d) = ToUpper(c)}

\* the strings over cs that are w with each letter in either case
RECURSIVE Recasings(_, _)
Recasings(cs, w) ==
  IF w = << >>
  THEN {<< >>}
  ELSE {<<c>> \o t : c \in CasesOf(cs, w[1]), t \in Recasings(cs, Tail(w))}

\* one string agrees with the other, letter case apart, on the positions
\* both have
CaseAgree(u, w) ==
  \A i \in 1..Min(Len(u), Len(w)) : ToUpper(u[i]) = ToUpper(w[i])

\* the call c is made on a string that is a re-casing of another string of
\* the caller
IsRecased(c) == "recasing_of" \in DOMAIN c

\* the strings the tokenizer may be shown at position index of the running
\* call's format: when the format is a re-casing of another string, they
\* agree, letter case apart, with the characters of that string
Windows ==
  IF IsRecased(calls[call])
  THEN LET other == strings[calls[call].recasing_of].format IN
       {v \in UNION {Recasings(alphabet, w) :
                       w \in Lookaheads(alphabet, size - index)} :
          CaseAgree(SubSeq(other, index + 1, Len(other)), v)}
  ELSE Lookaheads(alphabet, size - index)

ParseLoop ==
  /\ pc = "ParseLoop"
  /\ index < size
  /\ \E w \in Windows :
       /\ Agree(Known, w)
       /\ strings' = [strings EXCEPT ![calls[call].arg].format = Fix(w)]
       /\ ParseElement(w)
  /\ UNCHANGED <<alphabet, max_width, calls, call, v_is_null, results>>

\* FormatParser::Parse, after its loop
ParseEnd ==
  /\ pc = "ParseLoop"
  /\ ~(index < size)
  /\ status' = FinalValidate(parser)
  /\ raised' = IF status' = OkStatus THEN raised ELSE "FinalValidate"
  /\ parser' = IF status' = OkStatus
               THEN [parser EXCEPT !.parsed_format_element_info_ =
                                      SetOutputType(parser)]
               ELSE parser
  /\ pc' = "Return"
  /\ UNCHANGED <<alphabet, max_width, calls, strings, call, index, tokens,
                 v_is_null, results>>

----------------------------------------------------------------------------
(* The values: what the printf-style formatter StringFormatUtf8 returns for *)
(* the format "%#.<scale>f" or "%#.<scale>e" and a non-null numeric value. *)

\* most integer digits of a value
MaxIntegerDigits == 2

\* the digits values are written with
ValueDigits == {"0", "1", "9"}

\* the strings of k characters over cs
RECURSIVE StringsOf(_, _)
StringsOf(cs, k) ==
  IF k = 0 THEN {<< >>}
  ELSE {<<c>> \o t : c \in cs, t \in StringsOf(cs, k - 1)}

\* the integer digits "%f" writes: no leading zero but for the number 0
IntegerStrings ==
  {<<"0">>} \cup
  UNION {{t \in StringsOf(ValueDigits, k) : t[1] # "0"} :
           k \in 1..MaxIntegerDigits}

\* the exponents "%e" writes
ExponentStrings ==
  {<<"+", "0", "0">>, <<"+", "0", "1">>, <<"-", "0", "4">>, <<"+", "1", "2">>}

\* StringFormatUtf8("%#.<scale><e|f>", {v}): the strings it may return for
\* some non-null floating point, NUMERIC or BIGNUMERIC value v
FormattedNumbers(scale, has_exponent) ==
  {<<"i", "n", "f">>, <<"-", "i", "n", "f">>, <<"n", "a", "n">>} \cup
  {sign \o int \o <<".">> \o frac \o exp :
     sign \in {<< >>, <<"-">>},
     int \in IF has_exponent THEN StringsOf(ValueDigits, 1)
             ELSE IntegerStrings,
     frac \in StringsOf(ValueDigits, scale),
     exp \in IF has_exponent THEN {<<"e">> \o x : x \in ExponentStrings}
             ELSE {<< >>}}

\* FormatAsDecimal, given the string numeric_string that StringFormatUtf8
\* returned for the value
FormatAsDecimal(info, numeric_string) ==
  LET parsed == ParseFormattedRealNumber(numeric_string) IN
  IF parsed.status # OkStatus
  THEN Rendered(parsed.status, << >>)
  ELSE FormatAsDecimalInternal(info, parsed.n)

----------------------------------------------------------------------------
(* The entry points. *)

EntryPoints ==
  {"ValidateNumericalToStringFormat", "ParseForTest",
   "NumericalToStringWithFormat"}

\* what a call hands back to its caller: its status and, when the status is
\* OK, the ParsedFormatElementInfo (ParseForTest) or the output string
\* (NumericalToStringWithFormat); number is the string the value was
\* formatted to on the way
Returned(fn, st, parsed, number, output) ==
  [fn |-> fn, status |-> st, parsed |-> parsed, number |-> number,
   output |-> output]

\* the call of entry point fn on the caller's string arg
CallOf(fn, arg) == [fn |-> fn, arg |-> arg]

\* the call of entry point fn on the caller's string arg, which is its
\* string of with the case of some letters changed
RecasedCallOf(fn, arg, of) == [fn |-> fn, arg |-> arg, recasing_of |-> of]

SingleCalls == {<<CallOf(fn, 1)>> : fn \in EntryPoints}

\* a parser object that outlives the call
LocalParser_Reused(old) == old

\* the FormatParser object a call works with: "FormatParser parser;"
LocalParser(old) == FormatParser

\* the caller invokes calls[call]: the entry point constructs its parser;
\* NumericalToStringWithFormat first checks that its value is not null
Call ==
  /\ pc = "Call"
  /\ parser' = LocalParser(parser)
  /\ tokens' = << >>
  /\ index' = 0
  /\ v_is_null' \in IF calls[call].fn = "NumericalToStringWithFormat"
                     THEN BOOLEAN ELSE {FALSE}
  /\ IF v_is_null'
     THEN /\ status' = RetCheckFailure("!v.is_null()")
          /\ raised' = "NumericalToStringWithFormat"
          /\ pc' = "Return"
     ELSE /\ status' = OkStatus
          /\ raised' = ""
          /\ pc' = "Parse"
  /\ UNCHANGED <<alphabet, max_width, calls, strings, call, results>>

\* what NumericalToStringWithFormat may return after Parse returned info
NumericalToStringOutcomes(info) ==
  CASE info.output_type = "kDecimal" ->
         {LET r == FormatAsDecimal(info, numeric_string)
          IN Returned("NumericalToStringWithFormat", r.status, << >>,
                      <<numeric_string>>,
                      IF r.status = OkStatus THEN <<r.text>> ELSE << >>) :
            numeric_string \in FormattedNumbers(info.scale, info.has_exponent)}
    [] info.output_type = "kTextMinimal" ->
         {Returned("NumericalToStringWithFormat",
                   UnimplementedErrorBuilder(
                     "Text minimal output is not supported yet"),
                   << >>, << >>, << >>)}
    [] info.output_type = "kHexadecimal" ->
         {Returned("NumericalToStringWithFormat",
                   UnimplementedErrorBuilder(
                     "Hexadecimal output is not supported yet"),
                   << >>, << >>, << >>)}
    [] info.output_type = "kRomanNumeral" ->
         {Returned("NumericalToStringWithFormat",
                   UnimplementedErrorBuilder(
                     "Roman numeral output is not supported yet"),
                   << >>, << >>, << >>)}

\* Outcomes with ValidateNumericalToStringFormat dropping the status of Parse
Outcomes_ValidateDropsStatus(fn, st, p) ==
  IF fn = "ValidateNumericalToStringFormat"
  THEN {Returned(fn, OkStatus, << >>, << >>, << >>)}
  ELSE IF st # OkStatus
  THEN {Returned(fn, st, << >>, << >>, << >>)}
  ELSE CASE fn = "ParseForTest" ->
              {Returned(fn, OkStatus, <<p.parsed_format_element_info_>>,
                        << >>, << >>)}
         [] fn = "NumericalToStringWithFormat" ->
              NumericalToStringOutcomes(p.parsed_format_element_info_)

\* what the entry point fn may return once its call of Parse has ended with
\* status st and the parser object p (or its null check has failed)
Outcomes(fn, st, p) ==
  IF st # OkStatus
  THEN {Returned(fn, st, << >>, << >>, << >>)}
  ELSE CASE fn = "ValidateNumericalToStringFormat" ->
              {Returned(fn, OkStatus, << >>, << >>, << >>)}
         [] fn = "ParseForTest" ->
              {Returned(fn, OkStatus, <<p.parsed_format_element_info_>>,
                        << >>, << >>)}
         [] fn = "NumericalToStringWithFormat" ->
              NumericalToStringOutcomes(p.parsed_format_element_info_)

\* the rest of the entry point after Parse, and its return to the caller
Return ==
  /\ pc = "Return"
  /\ \E r \in Outcomes(calls[call].fn, status, parser) :
       results' = Append(results, r)
  /\ IF call < Len(calls)
     THEN call' = call + 1 /\ pc' = "Call"
     ELSE call' = call /\ pc' = "Done"
  /\ UNCHANGED <<alphabet, max_width, calls, strings, index, parser,
                 tokens, status, raised, v_is_null>>

----------------------------------------------------------------------------
(* Specifications. *)

\* the strings the calls cseq are made on
Args(cseq) == {cseq[i].arg : i \in 1..Len(cseq)}

\* the state in which the caller is about to make its first call, its format
\* strings being of at most width + 1 characters over cs and the flag being
\* width
InitWith(cs, width, callseqs) ==
  /\ alphabet = cs
  /\ max_width = width
  /\ calls \in callseqs
  /\ strings \in [Args(calls) ->
                     {[format |-> << >>, size |-> n] : n \in 0..(width + 1)}]
  /\ call = 1
  /\ pc = "Call"
  /\ index = 0
  /\ parser = FormatParser
  /\ tokens = << >>
  /\ status = OkStatus
  /\ raised = ""
  /\ v_is_null = FALSE
  /\ results = << >>

Next == Call \/ ParseBegin \/ ParseLoop \/ ParseEnd \/ Return

\* every entry point on every short string over all the characters
Init == InitWith(Chars, MaxFormatLen, SingleCalls)

Spec == Init /\ [][Next]_vars

\* the characters of decimal formats, with one flag and 'X'
DecimalChars == {"S", "9", "0", ",", ".", "E", "M", "I", "$", "X"}

InitDecimal ==
  InitWith(DecimalChars, MaxDecimalLen, {<<CallOf("ParseForTest", 1)>>})

SpecDecimal == InitDecimal /\ [][Next]_vars

\* the characters of the flags and of the four kinds of format
FlagChars ==
  {"F", "M", "B", "$", "C", "L", "9", "S", ".", "X", "T", "R", "N", "I"}

InitFlags ==
  InitWith(FlagChars, MaxFlagsLen,
           {<<CallOf("ValidateNumericalToStringFormat", 1)>>})

SpecFlags == InitFlags /\ [][Next]_vars

\* the characters of hexadecimal formats
HexChars == {"0", "X"}

InitHex == InitWith(HexChars, MaxHexLen, {<<CallOf("ParseForTest", 1)>>})

SpecHex == InitHex /\ [][Next]_vars

\* several calls: the three entry points on one format string, and two
\* calls of one entry point on a string with a call on another string between
\* them
CallChars == {"9", ".", "X", "$", "1"}

CallSequences ==
  {<<CallOf("ValidateNumericalToStringFormat", 1),
     CallOf("ParseForTest", 1),
     CallOf("NumericalToStringWithFormat", 1)>>,
   <<CallOf("ParseForTest", 1),
     CallOf("ValidateNumericalToStringFormat", 2),
     CallOf("ParseForTest", 1)>>,
   <<CallOf("ValidateNumericalToStringFormat", 1),
     CallOf("ParseForTest", 2),
     CallOf("ValidateNumericalToStringFormat", 1)>>}

InitCalls == InitWith(CallChars, MaxCallsLen, CallSequences)

SpecCalls == InitCalls /\ [][Next]_vars

\* the letters of the format elements of several characters, in both cases,
\* with the one-character elements that record a case and a character that
\* is no element
TokenChars ==
  {"T", "t", "M", "m", "9", "E", "e", "I", "i", "P", "p", "R", "r", "N", "n",
   "F", "f", "X", "x", "C", "c", "1"}

InitTokens == InitWith(TokenChars, MaxTokensLen, {<<CallOf("ParseForTest", 1)>>})

SpecTokens == InitTokens /\ [][Next]_vars

\* the three decimal points among digits, a sign and a group separator
PointChars == {"9", ".", "D", "d", "V", "v", "S", ","}

InitPoints ==
  InitWith(PointChars, MaxPointsLen,
           {<<CallOf("ValidateNumericalToStringFormat", 1)>>})

SpecPoints == InitPoints /\ [][Next]_vars

\* a format string and a re-casing of it
CaseChars == {"9", ".", "X", "x", "S", "s", "M", "m", "I", "i", "E", "e"}

InitCase ==
  /\ InitWith(CaseChars, MaxCaseLen,
              {<<CallOf("ValidateNumericalToStringFormat", 1),
                 RecasedCallOf("ValidateNumericalToStringFormat", 2, 1)>>})
  /\ strings[2].size = strings[1].size

SpecCase == InitCase /\ [][Next]_vars

\* digits, decimal points, a group separator, EEEE and 'X'
ExponentChars == {"9", "0", ".", "V", ",", "E", "X"}

InitExponent ==
  InitWith(ExponentChars, MaxExponentLen, {<<CallOf("ParseForTest", 1)>>})

SpecExponent == InitExponent /\ [][Next]_vars

\* what the renderer of decimal formats reads: digits, a decimal point, a
\* group separator and EEEE
RenderChars == {"9", "0", ".", ",", "E"}

InitRender ==
  InitWith(RenderChars, MaxRenderLen,
           {<<CallOf("NumericalToStringWithFormat", 1)>>})

SpecRender == InitRender /\ [][Next]_vars

\* what overflow rewrites to '#': digits around a decimal point, and EEEE
OverflowChars == {"9", "0", ".", "E"}

InitOverflow ==
  InitWith(OverflowChars, MaxOverflowLen,
           {<<CallOf("NumericalToStringWithFormat", 1)>>})

SpecOverflow == InitOverflow /\ [][Next]_vars

\* the signs and currencies around a digit, a decimal point and a group
\* separator
SignChars ==
  {"9", ".", ",", "S", "M", "I", "P", "R", "$", "L", "C", "c"}

InitSigns ==
  InitWith(SignChars, MaxSignsLen,
           {<<CallOf("NumericalToStringWithFormat", 1)>>})

SpecSigns == InitSigns /\ [][Next]_vars

\* the formats the renderer does not support yet, validated and then
\* rendered
UnimplementedChars == {"9", ".", "B", "F", "M", "T", "E", "R", "N", "X"}

InitUnimplemented ==
  InitWith(UnimplementedChars, MaxUnimplementedLen,
           {<<CallOf("ValidateNumericalToStringFormat", 1),
              CallOf("NumericalToStringWithFormat", 1)>>})

SpecUnimplemented == InitUnimplemented /\ [][Next]_vars

\* digits with the three decimal points and the two group separators
SeparatorChars == {"9", "0", ".", "D", "V", ",", "G"}

InitSeparators ==
  InitWith(SeparatorChars, MaxSeparatorsLen,
           {<<CallOf("NumericalToStringWithFormat", 1)>>})

SpecSeparators == InitSeparators /\ [][Next]_vars

\* the state in which the caller is about to make the calls cseq on format
\* strings of at most width characters over cs, the flag being width
InitOn(cs, width, callseqs) ==
  /\ alphabet = cs
  /\ max_width = width
  /\ calls \in callseqs
  /\ strings \in [Args(calls) ->
                     {[format |-> w, size |-> Len(w)] :
                        w \in UNION {StringsOf(cs, n) : n \in 0..width}}]
  /\ call = 1
  /\ pc = "Call"
  /\ index = 0
  /\ parser = FormatParser
  /\ tokens = << >>
  /\ status = OkStatus
  /\ raised = ""
  /\ v_is_null = FALSE
  /\ results = << >>

\* the flags FM, B and '$' among the elements of decimal, hexadecimal and
\* text minimal formats
MoveChars == {"F", "M", "B", "$", "9", ".", "X", "T"}

InitMoves ==
  InitOn(MoveChars, MaxMovesLen, {<<CallOf("ParseForTest", 1)>>})

SpecMoves == InitMoves /\ [][Next]_vars

\* the elements that move the parser from each of its states to the next
StateChars == {"S", "9", "0", ".", "E", "X", "T", "M", "I", "R", "N"}

InitStates ==
  InitWith(StateChars, MaxStatesLen, {<<CallOf("ParseForTest", 1)>>})

\* the call runs on: no step of the entry point waits for anything
SpecStates == InitStates /\ [][Next]_vars /\ WF_vars(Next)

----------------------------------------------------------------------------
(* Properties. *)

Info == parser.parsed_format_element_info_

\* the running call of Parse has ended
Ended == pc \in {"Return", "Done"}

\* Parse has returned OK to the entry point
Accepted == Ended /\ status = OkStatus

\* Parse has returned the error raised while processing its last token
RejectedAtToken ==
  Ended /\ raised = "ProcessFormatElement" /\ tokens # << >>

Last(seq) == seq[Len(seq)]

Front(seq) == SubSeq(seq, 1, Len(seq) - 1)

Has(seq, S) == \E i \in 1..Len(seq) : seq[i] \in S

Count(seq, S) == Cardinality({i \in 1..Len(seq) : seq[i] \in S})

IsPositional(t) == t \notin Flags

\* the tokens that are not flags
Positional(seq) == SelectSeq(seq, IsPositional)

Message(text) == FormatStringErrorBuilder(text)

\* the shape front_sign integer_part decimal_point fractional_part exponent
\* back_sign, read left to right: the part of the shape a token sequence has
\* come to, or "bad" when it has left the shape
ShapeStep(q, t) ==
  CASE q = "start" /\ t = "kSignS" -> "integer"
    [] q = "start" /\ t \in {"kSignMi", "kSignPr"} -> "back_sign"
    [] q \in {"start", "integer"} /\ t \in {"kDigit0", "kDigit9"} -> "integer"
    [] q \in {"start", "integer"} /\ t \in GroupSeparators -> "integer"
    [] q \in {"start", "integer"} /\ t \in DecimalPoints -> "fraction"
    [] q = "fraction" /\ t \in {"kDigit0", "kDigit9"} -> "fraction"
    [] q \in {"start", "integer", "fraction"} /\ t \in Exponents -> "exponent"
    [] q \in {"integer", "fraction", "exponent"} /\ t \in Signs -> "back_sign"
    [] OTHER -> "bad"

RECURSIVE ShapeOf(_)
ShapeOf(seq) ==
  IF seq = << >> THEN "start" ELSE ShapeStep(ShapeOf(Front(seq)), Last(seq))

\* position i of seq holds a back sign: a sign that is not the first token
IsBackSign(seq, i) == seq[i] \in Signs /\ i > 1

\* C1: every format Parse accepts as Decimal has, flags apart, the shape
\* [S] {0|9|,|G} [.|D|V] {0|9} [EEEE] [S|MI|PR]: nothing but flags follows a
\* back sign, and nothing but a back sign follows EEEE.
C1_DecimalShape ==
  (Accepted /\ Info.output_type = "kDecimal") =>
    LET pos == Positional(tokens) IN
    /\ ShapeOf(pos) # "bad"
    /\ \A i \in 1..Len(pos) : \A j \in (i + 1)..Len(pos) :
         /\ IsBackSign(pos, i) =>
              pos[j] \notin Digits \cup DecimalPoints \cup GroupSeparators
                              \cup Exponents
         /\ pos[i] \in Exponents => pos[j] \in Signs

\* a decimal format with a decimal point, EEEE and a back sign is accepted
C1_Witness ==
  /\ Accepted
  /\ Info.output_type = "kDecimal"
  /\ Has(tokens, DecimalPoints)
  /\ Has(tokens, Exponents)
  /\ Last(tokens) \in Signs
  /\ Len(tokens) >= 5

\* C2 as stated: no accepted format has two signs, and a second sign token
\* is rejected with the at-most-one-sign error in whatever state it is met.
C2_SecondSignAlwaysSignError ==
  /\ Accepted => Count(tokens, Signs) <= 1
  /\ Count(tokens, Signs) >= 2 =>
       /\ RejectedAtToken
       /\ status = Message(SignMessage)

\* C2, amended: no accepted format has two signs; a second sign token is
\* always rejected, with the at-most-one-sign error when it is met in the
\* integer part, the fractional part, after EEEE or in a hexadecimal format
\* (a back sign after a front 'S' included), and with "Unexpected format
\* element" when it is met after a back sign.
C2_AtMostOneSign ==
  /\ Accepted => Count(tokens, Signs) <= 1
  /\ Count(tokens, Signs) >= 2 =>
       /\ RejectedAtToken
       /\ Last(tokens) \in Signs
       /\ Count(Front(tokens), Signs) = 1
       /\ status =
            IF parser.state_ = "kAfterBackSign"
            THEN Message("Unexpected format element '"
                           \o FormatElementToString(Last(tokens)) \o "'")
            ELSE Message(SignMessage)

\* a back sign is rejected after a front 'S' and fractional digits
C2_Witness ==
  /\ RejectedAtToken
  /\ tokens[1] = "kSignS"
  /\ Last(tokens) = "kSignMi"
  /\ parser.state_ = "kFractionalPart"
  /\ Info.scale >= 1
  /\ status = Message(SignMessage)

XNineMessage == "'X' cannot appear together with '9'"

\* C3 as stated: while no error has occurred none of the pairs (has_9,
\* has_x), (has_group_separator, has_exponent), (has_group_separator, has_x)
\* holds; every format with both '9' and 'X' is rejected with "'X' cannot
\* appear together with '9'".
C3_NineAndXAlwaysThatError ==
  /\ status = OkStatus =>
       /\ ~(parser.has_9_ /\ parser.has_x_)
       /\ ~(parser.has_group_separator_ /\ Info.has_exponent)
       /\ ~(parser.has_group_separator_ /\ parser.has_x_)
  /\ (Ended /\ Has(tokens, {"kDigit9"}) /\ Has(tokens, DigitXs)) =>
       status = Message(XNineMessage)

\* the last token is the first to bring together a token of A and one of B
Completes(A, B) ==
  /\ tokens # << >>
  /\ Has(tokens, A) /\ Has(tokens, B)
  /\ ~(Has(Front(tokens), A) /\ Has(Front(tokens), B))

\* C3, amended: while no error has occurred none of the three pairs holds,
\* and the tokens read hold no '9' with an 'X', no group separator with
\* EEEE and none with an 'X'.  A format with both '9' and 'X' is always
\* rejected, with "'X' cannot appear together with '9'" when the token that
\* completes the pair is met in the integer part or in a hexadecimal format;
\* a format with a group separator and EEEE is always rejected, with "','
\* or 'G' cannot appear together with 'EEEE'" when the token that completes
\* the pair is met before any back sign.
C3_ExclusivePairs ==
  /\ status = OkStatus =>
       /\ ~(parser.has_9_ /\ parser.has_x_)
       /\ ~(parser.has_group_separator_ /\ Info.has_exponent)
       /\ ~(parser.has_group_separator_ /\ parser.has_x_)
       /\ ~(Has(tokens, {"kDigit9"}) /\ Has(tokens, DigitXs))
       /\ ~(Has(tokens, GroupSeparators) /\ Has(tokens, Exponents))
       /\ ~(Has(tokens, GroupSeparators) /\ Has(tokens, DigitXs))
  /\ Completes({"kDigit9"}, DigitXs) =>
       /\ RejectedAtToken
       /\ parser.state_ \in {"kIntegerPart", "kHexadecimal"} =>
            status = Message(XNineMessage)
  /\ Completes(GroupSeparators, Exponents) =>
       /\ RejectedAtToken
       /\ parser.state_ # "kAfterBackSign" =>
            status = Message(GroupExponentMessage)

\* EEEE is rejected in the fractional part of a format with a group
\* separator
C3_Witness ==
  /\ Completes(GroupSeparators, Exponents)
  /\ parser.state_ = "kFractionalPart"
  /\ Info.scale >= 1
  /\ status = Message(GroupExponentMessage)

\* the result of the i-th call
Result(i) == results[i]

AllDone == pc = "Done"

\* the calls made were Validate, ParseForTest and NumericalToStringWithFormat
\* on one string
CalledAllThree ==
  /\ AllDone
  /\ Len(calls) = 3
  /\ calls[1] = CallOf("ValidateNumericalToStringFormat", 1)
  /\ calls[2] = CallOf("ParseForTest", 1)
  /\ calls[3] = CallOf("NumericalToStringWithFormat", 1)

\* C4: ValidateNumericalToStringFormat(f) returns OK exactly when
\* ParseForTest(f) does, and when it fails NumericalToStringWithFormat(v, f)
\* returns, for a non-null v, the very status it returned.
C4_ValidateAgreesWithParse ==
  CalledAllThree =>
    /\ (Result(1).status = OkStatus) <=> (Result(2).status = OkStatus)
    /\ (Result(1).status # OkStatus /\ ~v_is_null) =>
         Result(3).status = Result(1).status

\* the three entry points have failed on a string that FinalValidate rejects
C4_Witness ==
  /\ CalledAllThree
  /\ ~v_is_null
  /\ raised = "FinalValidate"
  /\ Len(tokens) >= 2
  /\ Result(1).status = status
  /\ Result(3).status = status
  /\ status.code = "kOutOfRange"

\* the first and the third call were of one entry point on one string, with
\* a call on another string between them
CalledTwice ==
  /\ AllDone
  /\ Len(calls) = 3
  /\ calls[1] = calls[3]
  /\ calls[2].arg # calls[1].arg

\* C5: two calls of ValidateNumericalToStringFormat, or of ParseForTest, on
\* the same format string return the same status and the same
\* ParsedFormatElementInfo, whatever call on another string is made between
\* them, and every call of Parse starts with its parser in state kStart with
\* all flags false and digit_count_ 0.
C5_CallsKeepNoState ==
  /\ CalledTwice => Result(1) = Result(3)
  /\ pc = "Parse" => parser = FormatParser

\* ParseForTest has twice accepted a string after another string left the
\* parser of the call between them in a state other than the initial one
C5_Witness ==
  /\ CalledTwice
  /\ calls[1].fn = "ParseForTest"
  /\ Result(1).status = OkStatus
  /\ Result(1).parsed # << >>
  /\ Len(tokens) >= 2
  /\ strings[2].format # strings[1].format
  /\ strings[2].format # << >>

InternalCodes == {"kInternal", "bad_optional_access"}

\* C6: every error ValidateNumericalToStringFormat returns is an
\* out-of-range error whose message starts with "Error in format string: ":
\* the ZETASQL_RET_CHECK of the decimal-point case of OnIntegerPartState
\* never fails, decimal_point has a value whenever the parser is in state
\* kFractionalPart and sign has one whenever it is in state kAfterBackSign.
C6_OnlyFormatStringErrors ==
  /\ calls[call].fn = "ValidateNumericalToStringFormat" =>
       /\ status # OkStatus =>
            /\ status.code = "kOutOfRange"
            /\ Len(status.message) > Len(ErrorPrefix)
            /\ SubSeq(status.message, 1, Len(ErrorPrefix)) = ErrorPrefix
       /\ AllDone => Result(1).status = status
  /\ status.code \notin InternalCodes \/ raised = "NumericalToStringWithFormat"
  /\ parser.state_ = "kIntegerPart" => Info.decimal_point = nullopt
  /\ parser.state_ = "kFractionalPart" => Info.decimal_point # nullopt
  /\ parser.state_ = "kAfterBackSign" => Info.sign # nullopt

\* Validate has returned the error of a second decimal point, met in state
\* kFractionalPart where decimal_point.value() is read
C6_Witness ==
  /\ AllDone
  /\ calls[1].fn = "ValidateNumericalToStringFormat"
  /\ parser.state_ = "kFractionalPart"
  /\ Count(tokens, DecimalPoints) = 2
  /\ Result(1).status.code = "kOutOfRange"
  /\ raised = "ProcessFormatElement"

TooLongStatus ==
  Message("Format string too long; limit " \o ToString(max_width))

\* C7: a format string longer than the maximum width N is rejected with
\* "Format string too long; limit N" before any of its characters is looked
\* at, and a string of length N or less never gets that error.
C7_LengthCap ==
  /\ (size > max_width /\ pc # "Call" /\ pc # "Parse" /\ ~v_is_null) =>
       /\ status = TooLongStatus
       /\ raised = "Parse"
       /\ format = << >>
       /\ tokens = << >>
  /\ size <= max_width => (status # TooLongStatus /\ raised # "Parse")

\* a string one character longer than the maximum width has been rejected
C7_Witness ==
  /\ AllDone
  /\ size = max_width + 1
  /\ Result(1).status = TooLongStatus
  /\ format = << >>

\* the running call has come to FinalValidate
ReachedFinalValidate == Ended /\ raised \in {"", "FinalValidate"}

HexTooLongMessage == "Max number of 'X' is 16"

\* C8: a format accepted as hexadecimal has at most 16 digit placeholders,
\* '0' and 'X' counted together; a format with an 'X' that comes to
\* FinalValidate and passes its flag checks is rejected with "Max number of
\* 'X' is 16" when it has 17 placeholders or more, and accepted as
\* hexadecimal when it has 16 or fewer.
C8_HexDigitsAtMost16 ==
  /\ (Accepted /\ Info.output_type = "kHexadecimal") =>
       Count(tokens, Digits) <= MaxHexDigits
  /\ (/\ ReachedFinalValidate
      /\ Has(tokens, DigitXs)
      /\ Info.currency = nullopt
      /\ ~Info.has_b) =>
       IF Count(tokens, Digits) > MaxHexDigits
       THEN status = Message(HexTooLongMessage)
       ELSE status = OkStatus /\ Info.output_type = "kHexadecimal"

\* a format of 17 placeholders, a single 'X' among them, has been rejected
C8_Witness ==
  /\ Ended
  /\ raised = "FinalValidate"
  /\ Count(tokens, Digits) = MaxHexDigits + 1
  /\ Count(tokens, DigitXs) = 1
  /\ status = Message(HexTooLongMessage)

MissingDigitMessage ==
  "Format string must contain at least one of 'X', '0' or '9'"

\* C9: an accepted format that is neither text-minimal nor Roman-numeral has
\* a digit placeholder ('0', '9' or 'X'); a format without one that comes to
\* FinalValidate - the empty string, and any string of flags, signs and
\* decimal points - is rejected with the missing-digit error.
C9_AtLeastOneDigit ==
  /\ (Accepted /\ Info.output_type \notin {"kTextMinimal", "kRomanNumeral"}) =>
       Has(tokens, Digits)
  /\ (/\ ReachedFinalValidate
      /\ \A i \in 1..Len(tokens) :
           tokens[i] \in Flags \cup Signs \cup DecimalPoints) =>
       status = Message(MissingDigitMessage)

\* a format of a flag, a sign and a decimal point has been rejected
C9_Witness ==
  /\ Ended
  /\ raised = "FinalValidate"
  /\ Has(tokens, Flags)
  /\ Has(tokens, Signs)
  /\ Has(tokens, DecimalPoints)
  /\ status = Message(MissingDigitMessage)

\* the second token of the family F is rejected with the message text
RejectsSecond(F, text) ==
  Count(tokens, F) >= 2 =>
    /\ RejectedAtToken
    /\ Last(tokens) \in F
    /\ Count(tokens, F) = 2
    /\ status = Message(text)

CurrencyMessage == "There can be at most one of '$', 'C' or 'L'"

\* C10: an accepted format has at most one 'FM', one currency element and
\* one 'B'; a second 'FM' is rejected with "'FM' cannot be repeated", a
\* second currency element, the same or another, with "There can be at most
\* one of '$', 'C' or 'L'", and a second 'B' with "There can be at most one
\* 'B'", whatever state the parser is in.
C10_FlagsAtMostOnce ==
  /\ Accepted =>
       /\ Count(tokens, {"kCompactMode"}) <= 1
       /\ Count(tokens, Currencies) <= 1
       /\ Count(tokens, {"kElementB"}) <= 1
  /\ RejectsSecond({"kCompactMode"}, "'FM' cannot be repeated")
  /\ RejectsSecond(Currencies, CurrencyMessage)
  /\ RejectsSecond({"kElementB"}, "There can be at most one 'B'")

\* a second currency element, not the one seen first, has been rejected
\* after a back sign
C10_Witness ==
  /\ RejectedAtToken
  /\ parser.state_ = "kAfterBackSign"
  /\ Count(tokens, Currencies) = 2
  /\ Last(tokens) # Info.currency
  /\ status = Message(CurrencyMessage)

\* the token of seq that is in S, when there is one
TheOne(seq, S) == seq[CHOOSE i \in 1..Len(seq) : seq[i] \in S]

\* the element a format element is named by in a message
Named(element) == "'" \o FormatElementToString(element) \o "'"

\* what the checks made at the end of the token stream answer for the tokens
\* seq, taken in the order currency, B, FM, missing digits, hex digit count
FinalChecks(seq) ==
  LET cur == Has(seq, Currencies)
      b == Has(seq, {"kElementB"})
      fm == Has(seq, {"kCompactMode"})
      tm == Has(seq, Tms)
      x == Has(seq, DigitXs)
      rn == Has(seq, RomanNumerals)
  IN CASE cur /\ tm -> Message(TmMessage)
       [] cur /\ ~tm /\ x ->
            Message("'X' cannot appear together with "
                      \o Named(TheOne(seq, Currencies)))
       [] cur /\ ~tm /\ ~x /\ rn ->
            Message("'RN' cannot appear together with "
                      \o Named(TheOne(seq, Currencies)))
       [] OTHER ->
            CASE b /\ tm -> Message(TmMessage)
              [] b /\ ~tm /\ x -> Message("'X' cannot appear together with 'B'")
              [] b /\ ~tm /\ ~x /\ rn ->
                   Message("'RN' cannot appear together with 'B'")
              [] OTHER ->
                   CASE fm /\ tm -> Message(TmMessage)
                     [] ~tm /\ ~rn /\ ~Has(seq, Digits) ->
                          Message(MissingDigitMessage)
                     [] ~tm /\ ~rn /\ x /\ Count(seq, Digits) > MaxHexDigits ->
                          Message(HexTooLongMessage)
                     [] OTHER -> OkStatus

\* C11: when the token stream ends without a streaming error, the format
\* is rejected for a currency element with TM, 'X' or 'RN', for 'B' with TM,
\* 'X' or 'RN', and for 'FM' with TM, while 'FM' with 'X' or 'RN' is
\* accepted; the checks are made in the order currency, B, FM, missing
\* digits, hex digit count and the first that fails gives the error.
C11_FinalChecksInOrder ==
  ReachedFinalValidate =>
    /\ status = FinalChecks(tokens)
    /\ (/\ Has(tokens, {"kCompactMode"})
        /\ Has(tokens, DigitXs \cup RomanNumerals)
        /\ ~Has(tokens, Currencies \cup {"kElementB"})) => status = OkStatus

\* a format with a currency element, 'B' and 'X' has been rejected for the
\* currency element
C11_Witness ==
  /\ Ended
  /\ raised = "FinalValidate"
  /\ Has(tokens, Currencies)
  /\ Has(tokens, {"kElementB"})
  /\ Has(tokens, DigitXs)
  /\ status = Message("'X' cannot appear together with "
                        \o Named(TheOne(tokens, Currencies)))

\* the calls made were Validate on a string and Validate on a re-casing of it
CalledOnRecasing ==
  /\ AllDone
  /\ Len(calls) = 2
  /\ IsRecased(calls[2])
  /\ CaseAgree(strings[1].format, strings[2].format)

\* C12: ValidateNumericalToStringFormat gives a format string and any
\* re-casing of it the same outcome: both are accepted, or both are rejected
\* with the same message.
C12_CaseInsensitive ==
  CalledOnRecasing => Result(1).status = Result(2).status

AllElements ==
  Signs \cup Exponents \cup Digits \cup DecimalPoints \cup GroupSeparators
    \cup RomanNumerals \cup Tms \cup Flags

\* the elements that record the case they were written in, by case
LowerElements ==
  {"kDigitXLower", "kRomanNumeralLower", "kExponentEeeeLower", "kTmLower",
   "kTmeLower", "kTm9Lower", "kCurrencyCLower"}

UpperElements ==
  {"kDigitXUpper", "kRomanNumeralUpper", "kExponentEeeeUpper", "kTmUpper",
   "kTmeUpper", "kTm9Upper", "kCurrencyCUpper"}

IsLower(c) == ToUpper(c) # c

\* the characters of seq, in uppercase, as one string
RECURSIVE Spelling(_)
Spelling(seq) ==
  IF seq = << >> THEN "" ELSE ToUpper(seq[1]) \o Spelling(Tail(seq))

\* the characters of format from 0-based position start on spell the
\* element, letter case apart
SpelledAt(element, start) ==
  LET n == Len(FormatElementToString(element)) IN
  /\ start + n <= Len(format)
  /\ Spelling(SubSeq(format, start + 1, start + n)) =
       FormatElementToString(element)

\* 0-based position of the first character of the last token read
LastStart == index - Len(FormatElementToString(Last(tokens)))

\* C13: each token read is spelled, letter case apart, by the characters at
\* its position and is the longest element spelled there ('TM9' and 'TME'
\* before 'TM'; 'MI', 'PR', 'RN', 'EEEE', 'FM' of length 2, 2, 2, 4, 2); the
\* case recorded for RN, EEEE, TM*, X and C is that of its first character;
\* where no element is spelled - a letter M, P, R, E, F or T that begins
\* none, or a character outside the table - Parse fails with "Invalid format
\* element" naming that one character, and only there.
C13_GreedyTokenizer ==
  /\ tokens # << >> =>
       /\ LastStart >= 0
       /\ SpelledAt(Last(tokens), LastStart)
       /\ \A e \in AllElements :
            SpelledAt(e, LastStart) =>
              Len(FormatElementToString(e)) <=
                Len(FormatElementToString(Last(tokens)))
       /\ Last(tokens) \in LowerElements => IsLower(format[LastStart + 1])
       /\ Last(tokens) \in UpperElements => ~IsLower(format[LastStart + 1])
  /\ raised = "GetFormatElement" =>
       /\ index < Len(format)
       /\ status = Message("Invalid format element '" \o format[index + 1] \o "'")
       /\ \A e \in AllElements : ~SpelledAt(e, index)
  /\ \A e \in {"kSignMi", "kSignPr", "kCompactMode"} \cup RomanNumerals :
       Len(FormatElementToString(e)) = 2
  /\ \A e \in Exponents : Len(FormatElementToString(e)) = 4

\* 'tM9' has been read as the one token TM9, in lowercase
C13_Witness ==
  /\ Accepted
  /\ tokens = <<"kTm9Lower">>
  /\ format = <<"t", "M", "9">>

\* the error for the positional token element met after the back sign
AfterBackSignError(sign, element) ==
  IF element \in Digits \cup Exponents
  THEN IF sign = "kSignS"
       THEN Message("'S' can only appear before or after all digits and 'EEEE'")
       ELSE Message(Named(sign) \o " can only appear after all digits and 'EEEE'")
  ELSE Message("Unexpected format element " \o Named(element))

\* C14: once a back sign has been accepted every later positional token is
\* rejected - a digit or 'EEEE' with "'S' can only appear before or after
\* all digits and 'EEEE'" when the sign is S and with "'<sign>' can only
\* appear after all digits and 'EEEE'" when it is MI or PR, any other
\* positional token with "Unexpected format element '<elem>'" - so that in
\* state AfterBackSign only flag tokens are accepted.
C14_NothingAfterBackSign ==
  LET pos == Positional(tokens) IN
  /\ \A i \in 2..(Len(pos) - 1) :
       pos[i] \in Signs =>
         /\ i = Len(pos) - 1
         /\ RejectedAtToken
         /\ parser.state_ = "kAfterBackSign"
         /\ Last(tokens) = Last(pos)
         /\ status = AfterBackSignError(pos[i], Last(pos))
  /\ (parser.state_ = "kAfterBackSign" /\ status = OkStatus) =>
       /\ Len(pos) >= 2
       /\ Last(pos) \in Signs
       /\ Last(pos) = Info.sign

\* a digit has been rejected after the back sign MI and a flag accepted
\* after it
C14_Witness ==
  /\ RejectedAtToken
  /\ parser.state_ = "kAfterBackSign"
  /\ Info.sign = "kSignMi"
  /\ Last(tokens) = "kDigit9"
  /\ Front(tokens)[Len(tokens) - 1] \in Currencies
  /\ status =
       Message("'MI' can only appear after all digits and 'EEEE'")

\* a decimal point has been rejected in the fractional part
SecondPointRejected ==
  /\ RejectedAtToken
  /\ parser.state_ = "kFractionalPart"
  /\ Last(tokens) \in DecimalPoints

\* a decimal point has been met in the fractional part
SecondPointMet ==
  /\ Count(tokens, DecimalPoints) >= 2
  /\ \A i \in 1..Len(tokens) : tokens[i] \notin Signs \/ i = 1

\* C15 as stated: a second decimal point met in the fractional part is
\* rejected with the message "There can be at most one of '.','D','V'".
C15_SecondPointSpecText ==
  SecondPointMet =>
    /\ SecondPointRejected
    /\ status = Message("There can be at most one of '.','D','V'")

\* C15, amended: a second decimal point met in the fractional part is
\* rejected with the message "There can be at most one of '.', 'D', or
\* 'V'".
C15_SecondPoint ==
  /\ SecondPointMet =>
       /\ SecondPointRejected
       /\ status = Message("There can be at most one of '.', 'D', or 'V'")
  /\ SecondPointRejected => Count(tokens, DecimalPoints) = 2

\* "9.9V" has been rejected
C15_Witness ==
  /\ SecondPointRejected
  /\ tokens = <<"kDigit9", "kDecimalPointDot", "kDigit9", "kElementV">>
  /\ status.code = "kOutOfRange"

LowerLetters ==
  {"a", "b", "c", "d", "e", "f", "g", "h", "i", "j", "k", "l", "m", "n", "o",
   "p", "q", "r", "s", "t", "u", "v", "w", "x", "y", "z"}

\* no lowercase letter stands between quotation marks in text
QuotedUppercase(text) ==
  LET marks == {j \in 1..Len(text) : SubSeq(text, j, j) = "'"} IN
  \A i \in 1..Len(text) :
    Cardinality({j \in marks : j < i}) % 2 = 1 =>
      SubSeq(text, i, i) \notin LowerLetters

\* a token has made ProcessFormatElement return an error
StreamingError == raised = "ProcessFormatElement"

\* the number of characters the tokens seq take in the format string
RECURSIVE Width(_)
Width(seq) ==
  IF seq = << >>
  THEN 0
  ELSE Len(FormatElementToString(seq[1])) + Width(Tail(seq))

\* C16: Parse stops at the first token that makes ProcessFormatElement
\* return an error: the error is returned as it is, no later character of
\* the format is looked at and no later token read, whatever follows; an
\* error of FinalValidate is returned only when every token of the format
\* has been processed without error; a message that names a format element
\* names it in uppercase.
C16_StopsAtFirstError ==
  /\ [](StreamingError =>
          /\ Ended
          /\ status # OkStatus
          /\ index = Width(tokens)
          /\ AllDone => Result(1).status = status)
  /\ [][StreamingError =>
          /\ status' = status
          /\ tokens' = tokens
          /\ index' = index
          /\ strings' = strings]_vars
  /\ [](raised = "FinalValidate" =>
          /\ index = size
          /\ Width(tokens) = size)
  /\ []((Ended /\ raised \in {"ProcessFormatElement", "FinalValidate"}) =>
          QuotedUppercase(status.message))

\* a lowercase 'x' after '9' has been rejected under its uppercase name
\* while characters of the format are still unread
C16_Witness ==
  /\ AllDone
  /\ StreamingError
  /\ tokens = <<"kDigit9", "kDigitXLower">>
  /\ index < size
  /\ Len(format) = index
  /\ Result(1).status = Message(XNineMessage)

\* C17: a format accepted as hexadecimal has only '0' and 'X' placeholders
\* among its elements, and its tokens hold no '9', no decimal point ('.',
\* 'D', 'V'), no group separator and no 'EEEE'.
C17_HexOnlyZeroAndX ==
  (Accepted /\ Info.output_type = "kHexadecimal") =>
    /\ \A i \in 1..Len(Info.elements) :
         Info.elements[i] \in {"kDigit0"} \cup DigitXs
    /\ ~Has(tokens, {"kDigit9"} \cup DecimalPoints \cup GroupSeparators
                      \cup Exponents)
    /\ Has(tokens, DigitXs)

\* a hexadecimal format that begins with '0', goes on with 'X' and '0' and
\* ends with a sign is accepted
C17_Witness ==
  /\ Accepted
  /\ Info.output_type = "kHexadecimal"
  /\ Len(tokens) >= 4
  /\ tokens[1] = "kDigit0"
  /\ tokens[2] \in DigitXs
  /\ tokens[3] = "kDigit0"
  /\ Last(tokens) \in Signs
  /\ Len(Info.elements) >= 3

\* the first token of seq that is no flag, or nullopt when seq holds flags only
FirstPositional(seq) ==
  IF Positional(seq) = << >> THEN nullopt ELSE Positional(seq)[1]

\* C18: an accepted text-minimal format is one TM, TME or TM9 token and
\* nothing else (no element, sign, currency, B or FM); an accepted
\* Roman-numeral format is one RN token and at most one FM (no element, sign,
\* currency or B); a TM or RN token of an accepted format is its first
\* positional token; a positional token met after RN is rejected with
\* "'RN' cannot appear together with '<element>'".
C18_TextMinimalAndRomanAlone ==
  /\ (Accepted /\ Info.output_type = "kTextMinimal") =>
       /\ Len(tokens) = 1
       /\ tokens[1] \in Tms
       /\ Info.tm = tokens[1]
       /\ Info.elements = << >>
       /\ Info.sign = nullopt
       /\ Info.currency = nullopt
       /\ ~Info.has_b
       /\ ~Info.has_fm
  /\ (Accepted /\ Info.output_type = "kRomanNumeral") =>
       /\ Count(tokens, RomanNumerals) = 1
       /\ Count(tokens, {"kCompactMode"}) <= 1
       /\ \A i \in 1..Len(tokens) :
            tokens[i] \in RomanNumerals \cup {"kCompactMode"}
       /\ Info.roman_numeral = TheOne(tokens, RomanNumerals)
       /\ Info.elements = << >>
       /\ Info.sign = nullopt
       /\ Info.currency = nullopt
       /\ ~Info.has_b
  /\ Accepted =>
       /\ Has(tokens, Tms) <=> Info.output_type = "kTextMinimal"
       /\ Has(tokens, RomanNumerals) <=> Info.output_type = "kRomanNumeral"
       /\ \A i \in 1..Len(tokens) :
            tokens[i] \in Tms \cup RomanNumerals =>
              Positional(SubSeq(tokens, 1, i)) = <<tokens[i]>>
  /\ (/\ Ended
      /\ raised = "ProcessFormatElement"
      /\ IsPositional(Last(tokens))
      /\ FirstPositional(Front(tokens)) \in RomanNumerals) =>
       status = Message("'RN' cannot appear together with "
                          \o Named(Last(tokens)))

\* a Roman-numeral format with FM after RN is accepted
C18_Witness ==
  /\ Accepted
  /\ Info.output_type = "kRomanNumeral"
  /\ tokens = <<"kRomanNumeralUpper", "kCompactMode">>
  /\ Info.has_fm

\* the number of tokens of S that seq holds after its first token of T
CountAfter(seq, S, T) ==
  IF Has(seq, T)
  THEN LET first == CHOOSE i \in 1..Len(seq) :
                      seq[i] \in T /\ \A j \in 1..(i - 1) : seq[j] \notin T
       IN Count(SubSeq(seq, first + 1, Len(seq)), S)
  ELSE 0

\* C19: for every accepted Decimal format, num_integer_digit + scale is the
\* number of '0' and '9' placeholders of the format string, scale being the
\* number of placeholders after the decimal point.
C19_DigitsSplit ==
  (Accepted /\ Info.output_type = "kDecimal") =>
    /\ Info.scale = CountAfter(tokens, {"kDigit9", "kDigit0"}, DecimalPoints)
    /\ Info.num_integer_digit + Info.scale =
         Count(tokens, {"kDigit9", "kDigit0"})
    /\ Info.num_integer_digit >= 0

\* a format with two integer digits, a decimal point and a fractional digit
\* is accepted
C19_Witness ==
  /\ Accepted
  /\ Info.output_type = "kDecimal"
  /\ Info.num_integer_digit = 2
  /\ Info.scale >= 1
  /\ Has(tokens, {"kDigit0"})
  /\ Has(tokens, {"kDigit9"})
  /\ Has(tokens, Signs)

\* C20 as stated: after a Decimal format is accepted, scale +
\* num_integer_digit is the number of digit placeholders in the returned
\* elements.
C20_ElementsHoldAllDigits ==
  (Accepted /\ Info.output_type = "kDecimal") =>
    Info.scale + Info.num_integer_digit =
      Count(Info.elements, {"kDigit9", "kDigit0"})

\* C20: after a Decimal format is accepted, the returned elements hold scale
\* + num_integer_digit digit placeholders, unless the format has EEEE and two
\* integer digits or more: then all its integer placeholders but the last are
\* erased and the elements hold 1 + scale.
C20_ElementsDigits ==
  (Accepted /\ Info.output_type = "kDecimal") =>
    /\ Count(Info.elements, {"kDigit9", "kDigit0"}) =
         IF Info.has_exponent /\ Info.num_integer_digit >= 2
         THEN 1 + Info.scale
         ELSE Info.num_integer_digit + Info.scale
    /\ Info.has_exponent => Info.decimal_point_index <= 1
    /\ Info.has_exponent <=> Has(tokens, Exponents)

\* a format with EEEE, two integer digits and a fractional digit is accepted
\* and one of its integer digits is erased
C20_Witness ==
  /\ Accepted
  /\ Info.output_type = "kDecimal"
  /\ Info.has_exponent
  /\ Info.num_integer_digit = 2
  /\ Info.scale = 1
  /\ Len(Info.elements) = 4
  /\ Info.decimal_point_index = 1

\* the tokens of seq that Parse pushes onto elements, in their order
Pushed(seq) ==
  LET Kept(t) == t \in Digits \cup DecimalPoints \cup GroupSeparators
                        \cup Exponents
  IN SelectSeq(seq, Kept)

\* the number of elements of seq before its first decimal point or EEEE
IntegerSlots(seq) ==
  Cardinality({i \in 1..Len(seq) :
                 \A j \in 1..i : seq[j] \notin DecimalPoints \cup Exponents})

\* C21: for an accepted Decimal format with EEEE, at most one integer digit
\* placeholder stands before the decimal point or EEEE in the returned
\* elements and decimal_point_index is at most 1; of k >= 2 integer
\* placeholders the first k - 1 are erased, decimal_point_index becomes 1, and
\* what remains keeps its order and values.
C21_ExponentRewrite ==
  (Accepted /\ Info.output_type = "kDecimal" /\ Info.has_exponent) =>
    LET pushed == Pushed(tokens)
        k == IntegerSlots(pushed)
    IN /\ IntegerSlots(Info.elements) <= 1
       /\ Info.decimal_point_index <= 1
       /\ Info.decimal_point_index = IntegerSlots(Info.elements)
       /\ IF k >= 2
          THEN /\ Info.elements = SubSeq(pushed, k, Len(pushed))
               /\ Info.decimal_point_index = 1
               /\ Info.elements[1] = pushed[k]
               /\ Info.elements[1] \in {"kDigit9", "kDigit0"}
          ELSE /\ Info.elements = pushed
               /\ Info.decimal_point_index = k

\* a format with two integer digits, a decimal point, a fractional digit
\* and EEEE is accepted and keeps the last of its integer digits
C21_Witness ==
  /\ Accepted
  /\ Info.output_type = "kDecimal"
  /\ tokens = <<"kDigit9", "kDigit0", "kDecimalPointDot", "kDigit9",
                "kExponentEeeeUpper">>
  /\ Info.elements = <<"kDigit0", "kDecimalPointDot", "kDigit9",
                       "kExponentEeeeUpper">>
  /\ Info.decimal_point_index = 1
  /\ Info.scale = 1

\* C22 as stated: for every accepted Decimal format with EEEE,
\* elements[decimal_point_index - 1] exists and is a digit placeholder, and
\* decimal_point_index is at most 2.
C22_DigitBeforePoint ==
  (Accepted /\ Info.output_type = "kDecimal" /\ Info.has_exponent) =>
    /\ Info.decimal_point_index - 1 >= 0
    /\ Info.decimal_point_index - 1 < Len(Info.elements)
    /\ Info.elements[Info.decimal_point_index] \in {"kDigit9", "kDigit0"}
    /\ Info.decimal_point_index <= 2

\* C22: for every accepted Decimal format with EEEE, decimal_point_index is
\* at most 1; it is 1, with a digit placeholder at elements[0], when the
\* format has an integer digit placeholder, and 0, with the decimal point at
\* elements[0] and nothing before it, when the format begins with its
\* decimal point.
C22_DigitBeforePointIfAny ==
  (Accepted /\ Info.output_type = "kDecimal" /\ Info.has_exponent) =>
    /\ Info.elements # << >>
    /\ Info.decimal_point_index <= 1
    /\ IF Pushed(tokens)[1] \in {"kDigit9", "kDigit0"}
       THEN /\ Info.decimal_point_index = 1
            /\ Info.elements[1] \in {"kDigit9", "kDigit0"}
            /\ Info.num_integer_digit >= 1
       ELSE /\ Info.decimal_point_index = 0
            /\ Info.elements[1] \in DecimalPoints
            /\ Pushed(tokens)[1] \in DecimalPoints
            /\ Info.num_integer_digit = 0

\* a format that begins with its decimal point and has EEEE is accepted
C22_Witness ==
  /\ Accepted
  /\ Info.output_type = "kDecimal"
  /\ Info.has_exponent
  /\ tokens = <<"kDecimalPointDot", "kDigit9", "kExponentEeeeUpper">>
  /\ Info.decimal_point_index = 0
  /\ Info.elements = tokens

\* C23: in every ParsedFormatElementInfo Parse returns, index_of_first_zero
\* is set if and only if elements holds a '0' placeholder, and when set it is
\* an index into elements, that of the first '0' placeholder of elements.
C23_IndexOfFirstZero ==
  Accepted =>
    LET zero == Info.index_of_first_zero IN
    /\ zero.has_value <=> Has(Info.elements, {"kDigit0"})
    /\ zero.has_value =>
         /\ zero.value >= 0
         /\ zero.value < Len(Info.elements)
         /\ Info.elements[zero.value + 1] = "kDigit0"
         /\ \A j \in 1..zero.value : Info.elements[j] # "kDigit0"

\* C24 as stated: in every ParsedFormatElementInfo Parse returns,
\* decimal_point_index lies between 0 and elements.size(): it is the index of
\* the decimal point when there is one, the index of EEEE when there is an
\* exponent and no decimal point, and elements.size() otherwise.
C24_PointIndexInEveryFormat ==
  Accepted =>
    /\ Info.decimal_point_index >= 0
    /\ Info.decimal_point_index <= Len(Info.elements)
    /\ Info.decimal_point_index =
         IF Has(Info.elements, DecimalPoints \cup Exponents)
         THEN IntegerSlots(Info.elements)
         ELSE Len(Info.elements)
    /\ Has(Info.elements, DecimalPoints) =>
         Info.elements[Info.decimal_point_index + 1] \in DecimalPoints
    /\ (Has(Info.elements, Exponents) /\ ~Has(Info.elements, DecimalPoints)) =>
         Info.elements[Info.decimal_point_index + 1] \in Exponents

\* C24: in every ParsedFormatElementInfo Parse returns with output type
\* Decimal, decimal_point_index lies between 0 and elements.size(): it is the
\* index of the decimal point when there is one, the index of EEEE when there
\* is an exponent and no decimal point, and elements.size() otherwise; with
\* any other output type it is left at npos.
C24_PointIndex ==
  /\ (Accepted /\ Info.output_type = "kDecimal") =>
       /\ Info.decimal_point_index >= 0
       /\ Info.decimal_point_index <= Len(Info.elements)
       /\ Info.decimal_point_index =
            IF Has(Info.elements, DecimalPoints \cup Exponents)
            THEN IntegerSlots(Info.elements)
            ELSE Len(Info.elements)
       /\ Has(Info.elements, DecimalPoints) =>
            Info.elements[Info.decimal_point_index + 1] \in DecimalPoints
       /\ (/\ Has(Info.elements, Exponents)
           /\ ~Has(Info.elements, DecimalPoints)) =>
            Info.elements[Info.decimal_point_index + 1] \in Exponents
       /\ Has(Info.elements, DecimalPoints) <=> Has(tokens, DecimalPoints)
  /\ (Accepted /\ Info.output_type # "kDecimal") =>
       Info.decimal_point_index = npos

\* a format with a group separator among its integer digits and a decimal
\* point is accepted
C24_Witness ==
  /\ Accepted
  /\ Info.output_type = "kDecimal"
  /\ tokens = <<"kDigit9", "kGroupSeparatorComma", "kDigit0",
                "kDecimalPointDot", "kDigit9">>
  /\ Info.elements = tokens
  /\ Info.decimal_point_index = 3

----------------------------------------------------------------------------
(* Rendering: NumericalToStringWithFormat on one format string. *)

\* the call has returned a string
Printed ==
  /\ AllDone
  /\ Result(1).fn = "NumericalToStringWithFormat"
  /\ Result(1).status = OkStatus

\* the string the value was formatted to, and the output string
Number == Result(1).number[1]
Output == Result(1).output[1]

\* the value as ParseFormattedRealNumber hands it to the renderer
Value == ParseFormattedRealNumber(Number).n

\* the integer part of the value has more digits than the format has integer
\* digit placeholders
Overflowed == Len(Value.integer_part) > Info.num_integer_digit

Placeholders == {"kDigit9", "kDigit0"}

\* C25 as stated: when a finite value overflows an accepted Decimal format,
\* the output holds exactly one '#' per digit placeholder of the format and
\* no decimal digit.
C25_OneHashPerDigit ==
  (Printed /\ Overflowed) =>
    /\ Count(Output, {"#"}) = Count(tokens, Placeholders)
    /\ ~Has(Output, DigitChars)

\* C25: when a finite value overflows an accepted Decimal format, the output
\* holds one '#' per digit placeholder of the format, four more for EEEE when
\* the format has it, and no decimal digit.
C25_HashesInOverflow ==
  (Printed /\ Overflowed) =>
    /\ Count(Output, {"#"}) =
         Count(tokens, Placeholders)
           + (IF Has(tokens, Exponents) THEN 4 ELSE 0)
    /\ ~Has(Output, DigitChars)
    /\ ~Has(Output, {"e", "E", "+"})
    /\ Has(tokens, Exponents) => Info.num_integer_digit = 0

\* a value of two integer digits has been rendered with a format of one
\* integer digit and one fractional digit
C25_Witness ==
  /\ Printed
  /\ Overflowed
  /\ tokens = <<"kDigit9", "kDecimalPointDot", "kDigit0">>
  /\ Number = <<"1", "9", ".", "1">>
  /\ Output = <<" ", "#", ".", "#">>

\* the sign of the format stands before its first digit placeholder
SignBeforeDigits ==
  \E i \in 1..Len(tokens) :
    /\ tokens[i] \in Signs
    /\ \A j \in 1..i : tokens[j] \notin Digits

\* the text the sign of the format puts before and after the number
SignPrefix(negative) ==
  CASE ~Has(tokens, Signs) -> IF negative THEN <<"-">> ELSE <<" ">>
    [] Has(tokens, {"kSignS"}) /\ SignBeforeDigits ->
         IF negative THEN <<"-">> ELSE <<"+">>
    [] Has(tokens, {"kSignPr"}) -> IF negative THEN <<"<">> ELSE <<" ">>
    [] OTHER -> << >>

SignSuffix(negative) ==
  CASE ~Has(tokens, Signs) -> << >>
    [] Has(tokens, {"kSignS"}) /\ ~SignBeforeDigits ->
         IF negative THEN <<"-">> ELSE <<"+">>
    [] Has(tokens, {"kSignMi"}) -> IF negative THEN <<"-">> ELSE <<" ">>
    [] Has(tokens, {"kSignPr"}) -> IF negative THEN <<">">> ELSE <<" ">>
    [] OTHER -> << >>

\* the text of the currency of the format
CurrencyText ==
  CASE Has(tokens, {"kCurrencyDollar", "kCurrencyL"}) -> <<"$">>
    [] Has(tokens, {"kCurrencyCLower"}) -> <<"u", "s", "d">>
    [] Has(tokens, {"kCurrencyCUpper"}) -> <<"U", "S", "D">>
    [] OTHER -> << >>

\* the elements seq with '#' for each digit placeholder, ',' for each group
\* separator, '.' for '.' and 'D', and nothing for 'V'
RECURSIVE Hashes(_)
Hashes(seq) ==
  IF seq = << >>
  THEN << >>
  ELSE (CASE seq[1] \in Placeholders -> <<"#">>
          [] seq[1] \in GroupSeparators -> <<",">>
          [] seq[1] \in {"kDecimalPointDot", "kDecimalPointD"} -> <<".">>
          [] OTHER -> << >>)
       \o Hashes(Tail(seq))

\* C26 as stated: in overflow, for a Decimal format without EEEE, every digit
\* slot of elements renders as '#', every group separator as ',', a '.' or
\* 'D' as '.', no slot becomes left padding, and the sign prefix and suffix
\* and the currency text are those of the non-overflow case.
C26_OverflowKeepsEverySlot ==
  (Printed /\ Overflowed /\ ~Has(tokens, Exponents)) =>
    Output = SignPrefix(Value.negative) \o CurrencyText
               \o Hashes(Info.elements) \o SignSuffix(Value.negative)

\* the string the value of opposite sign is formatted to
Negated(number) ==
  IF number[1] = "-" THEN Tail(number) ELSE <<"-">> \o number

\* what the renderer returns for the same format and the value of opposite
\* sign
OppositeOutput == FormatAsDecimal(Info, Negated(Number)).text

\* own and other are the renderings of a value and of the value of opposite
\* sign, own being that of the negative value if negative holds: they have
\* the same length and differ in their first character only, '-' for the
\* negative value and ' ' for the other
DifferInFirst(own, other, negative) ==
  LET minus == IF negative THEN own ELSE other
      plus == IF negative THEN other ELSE own
  IN /\ Len(minus) = Len(plus)
     /\ minus[1] = "-"
     /\ plus[1] = " "
     /\ Tail(minus) = Tail(plus)

\* the same, the character they differ in coming after spaces
DifferInSign(own, other, negative) ==
  LET minus == IF negative THEN own ELSE other
      plus == IF negative THEN other ELSE own
  IN /\ Len(minus) = Len(plus)
     /\ \E k \in 1..Len(minus) :
          /\ minus[k] = "-"
          /\ plus[k] = " "
          /\ \A j \in 1..Len(minus) :
               /\ j # k => minus[j] = plus[j]
               /\ j < k => minus[j] = " "

\* C27 as stated: for an accepted Decimal format without a sign element and
\* a finite value v, the renderings of +v and -v have the same length and
\* differ only in their first character, ' ' for +v and '-' for -v.
C27_SignIsFirstCharacter ==
  (Printed /\ ~Has(tokens, Signs)) =>
    DifferInFirst(Output, OppositeOutput, Number[1] = "-")

\* C27: for an accepted Decimal format without a sign element and a finite
\* value v, the renderings of +v and -v have the same length and differ in
\* one character only, ' ' for +v and '-' for -v, which comes after the
\* spaces of the left padding.
C27_SignSymmetry ==
  (Printed /\ ~Has(tokens, Signs)) =>
    DifferInSign(Output, OppositeOutput, Number[1] = "-")

\* the value -1 has been rendered with a format of two integer digits
C27_Witness ==
  /\ Printed
  /\ tokens = <<"kDigit9", "kDigit9">>
  /\ Number = <<"-", "1", ".">>
  /\ Output = <<" ", "-", "1">>
  /\ OppositeOutput = <<" ", " ", "1">>

\* text is padding spaces, then the sign prefix, the currency text, a body
\* of digits, group separators, a decimal point and '#' (and of the exponent
\* when the format has EEEE), and the sign suffix
Assembled(text, padding, negative) ==
  LET head == Spaces(padding) \o SignPrefix(negative) \o CurrencyText
      foot == SignSuffix(negative)
      body == SubSeq(text, Len(head) + 1, Len(text) - Len(foot))
  IN /\ Len(text) >= Len(head) + Len(foot)
     /\ SubSeq(text, 1, Len(head)) = head
     /\ SubSeq(text, Len(text) - Len(foot) + 1, Len(text)) = foot
     /\ \A i \in 1..Len(body) :
          body[i] \in DigitChars \cup {",", ".", "#"}
                       \cup (IF Has(tokens, Exponents)
                             THEN {"e", "E", "+", "-"} ELSE {})

\* C28: the output is left padding, sign prefix, currency text, integer
\* text, fractional text, sign suffix: a front 'S' gives the prefix '-' or
\* '+' and no suffix, a back 'S' the suffix '-' or '+' and no prefix, 'MI' no
\* prefix and the suffix '-' or ' ', 'PR' '<' and '>' or two spaces, no sign
\* the prefix '-' or ' '; the currency text is '$' for '$' and 'L', 'usd' or
\* 'USD' for 'c' or 'C'.  So 9 with "S9" gives "+9", -9 with "9MI" gives
\* "9-", -9 with "9PR" gives "<9>", and v in 0..9 with "9" gives " v".
C28_Assembly ==
  Printed =>
    /\ \E padding \in 0..Info.decimal_point_index :
         Assembled(Output, padding, Value.negative)
    /\ (tokens = <<"kSignS", "kDigit9">> /\ Number = <<"9", ".">>) =>
         Output = <<"+", "9">>
    /\ (tokens = <<"kDigit9", "kSignMi">> /\ Number = <<"-", "9", ".">>) =>
         Output = <<"9", "-">>
    /\ (tokens = <<"kDigit9", "kSignPr">> /\ Number = <<"-", "9", ".">>) =>
         Output = <<"<", "9", ">">>
    /\ (tokens = <<"kDigit9", "kSignS">> /\ Number = <<"1", ".">>) =>
         Output = <<"1", "+">>
    /\ (tokens = <<"kDigit9">> /\ Len(Number) = 2) =>
         Output = <<" ", Number[1]>>
    /\ (tokens = <<"kDigit9">> /\ Number = <<"-", "1", ".">>) =>
         Output = <<"-", "1">>

\* the value -9 has been rendered with the format "c9PR"
C28_Witness ==
  /\ Printed
  /\ tokens = <<"kCurrencyCLower", "kDigit9", "kSignPr">>
  /\ Number = <<"-", "9", ".">>
  /\ Output = <<"<", "u", "s", "d", "9", ">">>

\* the number of characters at the front of text that are in S
Leading(text, S) ==
  Cardinality({i \in 1..Len(text) : \A j \in 1..i : text[j] \in S})

\* the integer text of an output without sign suffix and currency: what
\* stands between the padding and sign and the decimal point or exponent
IntegerText(text) ==
  LET rest == SubSeq(text, Leading(text, {" ", "-"}) + 1, Len(text))
  IN SubSeq(rest, 1, Leading(rest, DigitChars \cup {",", "#"}))

\* a '0' placeholder stands before the decimal point of the format
ZeroBeforePoint ==
  \E i \in 1..Len(tokens) :
    /\ tokens[i] = "kDigit0"
    /\ \A j \in 1..i : tokens[j] \notin DecimalPoints

\* the digits of text, its group separators left out
DigitsOf(text) == SelectSeq(text, LAMBDA c : c # ",")

ValidatedAndRendered ==
  /\ AllDone
  /\ Len(results) = 2
  /\ Result(1).fn = "ValidateNumericalToStringFormat"
  /\ Result(2).fn = "NumericalToStringWithFormat"
  /\ ~v_is_null

\* Parse has accepted a format the renderer does not support
Unsupported ==
  /\ status = OkStatus
  /\ \/ Info.output_type # "kDecimal"
     \/ Info.has_b
     \/ Info.has_fm

\* C30: for an accepted format that is not Decimal, or is Decimal with 'B'
\* or 'FM', NumericalToStringWithFormat returns an Unimplemented error for
\* every non-null value and never a string, and so it does for an infinite
\* or NaN value with any accepted format; ValidateNumericalToStringFormat
\* accepts these formats.
C30_Unimplemented ==
  ValidatedAndRendered =>
    /\ Unsupported =>
         /\ Result(1).status = OkStatus
         /\ Result(2).status.code = "kUnimplemented"
         /\ Result(2).output = << >>
    /\ (status = OkStatus /\ Result(2).number # << >>
          /\ Result(2).number[1] \in {<<"i", "n", "f">>, <<"-", "i", "n", "f">>,
                                       <<"n", "a", "n">>}) =>
         /\ Result(2).status.code = "kUnimplemented"
         /\ Result(2).output = << >>
    /\ Result(2).status = OkStatus =>
         /\ Result(2).output # << >>
         /\ ~Unsupported
    /\ (status = OkStatus /\ tokens \in {<<"kTm9Upper">>, <<"kTmUpper">>}) =>
         /\ Result(1).status = OkStatus
         /\ Info.output_type = "kTextMinimal"
         /\ Result(2).status.code = "kUnimplemented"

\* a Decimal format with FM has been validated and then used to render a
\* finite value
C30_Witness ==
  /\ ValidatedAndRendered
  /\ tokens = <<"kCompactMode", "kDigit9">>
  /\ Info.output_type = "kDecimal"
  /\ Result(1).status = OkStatus
  /\ Result(2).number = <<<<"1", ".">>>>
  /\ Result(2).status.code = "kUnimplemented"
----------------------------------------------------------------------------
(* Parse as a function of the format string, for comparing two formats. *)

\* Parse's loop on the rest str of the format, from the parser p: the parser
\* and the status the loop ends with
RECURSIVE ParseRest(_, _)
ParseRest(p, str) ==
  IF str = << >>
  THEN [parser |-> p, status |-> OkStatus]
  ELSE
    LET got == GetFormatElement(str) IN
    IF got.element = nullopt
    THEN [parser |-> p,
          status |-> FormatStringErrorBuilder(
                       "Invalid format element '" \o str[1] \o "'")]
    ELSE LET pushed == [p EXCEPT !.parsed_format_element_info_ =
                                    PushElement(@, got.element)]
             done == ProcessFormatElement(pushed, got.element)
         IN IF done.status # OkStatus
            THEN done
            ELSE ParseRest(done.parser, SubstrFrom(str, got.length))

\* Parse on the format string str of at most max_width characters: its
\* status and, when the status is OK, the ParsedFormatElementInfo
ParseOf(str) ==
  LET begun == [FormatParser EXCEPT
                  !.parsed_format_element_info_.decimal_point_index = npos]
      looped == ParseRest(begun, str)
      st == IF looped.status # OkStatus THEN looped.status
            ELSE FinalValidate(looped.parser)
  IN [status |-> st,
      info |-> IF st = OkStatus THEN SetOutputType(looped.parser)
               ELSE looped.parser.parsed_format_element_info_]

\* what NumericalToStringWithFormat hands back for the format parsed to
\* info and the value formatted to number
OutputOf(info, number) ==
  LET r == FormatAsDecimal(info, number)
  IN [status |-> r.status,
      output |-> IF r.status = OkStatus THEN <<r.text>> ELSE << >>]

\* the one call of Parse has ended on a format string that is not too long
Parsed == AllDone /\ ~v_is_null /\ ~TooLong(size, max_width)

\* str with every 'D' replaced by '.' and every 'G' by ','
DotAndComma(str) ==
  [i \in 1..Len(str) |->
     CASE str[i] = "D" -> "."
       [] str[i] = "G" -> ","
       [] OTHER -> str[i]]

\* C31: replacing every 'D' by '.' and every 'G' by ',' in a format string
\* changes neither whether Parse accepts it nor, when it is an accepted
\* Decimal format, what NumericalToStringWithFormat returns for any value.
C31_DAndGLikeDotAndComma ==
  Parsed =>
    LET other == ParseOf(DotAndComma(format)) IN
    /\ (status = OkStatus) <=> (other.status = OkStatus)
    /\ status = OkStatus /\ Info.output_type = "kDecimal" =>
         /\ other.info.output_type = "kDecimal"
         /\ other.info.scale = Info.scale
         /\ other.info.has_exponent = Info.has_exponent
         /\ OutputOf(other.info, Number) =
              [status |-> Result(1).status, output |-> Result(1).output]

\* 19 is rendered with "9G9D" as it is with "9,9."
C31_Witness ==
  /\ Printed
  /\ format = <<"9", "G", "9", "D">>
  /\ Number = <<"1", "9", ".">>
  /\ Output = <<" ", "1", ",", "9", ".">>
  /\ ParseOf(<<"9", ",", "9", ".">>).status = OkStatus
\* str with every 'V' replaced by '.'
VAsDot(str) == [i \in 1..Len(str) |-> IF str[i] = "V" THEN "." ELSE str[i]]

\* text without its characters c
Without(text, c) == SelectSeq(text, LAMBDA x : x # c)

\* C32: 'V' is an invisible decimal point: for an accepted Decimal format
\* with 'V' and every value, the output is the output of the format with 'V'
\* replaced by '.', which has exactly one '.', with that '.' removed.
C32_VIsInvisiblePoint ==
  Parsed /\ status = OkStatus /\ Has(tokens, {"kElementV"}) =>
    LET other == ParseOf(VAsDot(format))
        dotted == OutputOf(other.info, Number)
    IN /\ Info.output_type = "kDecimal"
       /\ other.status = OkStatus
       /\ other.info.output_type = "kDecimal"
       /\ other.info.scale = Info.scale
       /\ other.info.has_exponent = Info.has_exponent
       /\ dotted.status = Result(1).status
       /\ Printed =>
            /\ Count(dotted.output[1], {"."}) = 1
            /\ Count(Output, {"."}) = 0
            /\ Output = Without(dotted.output[1], ".")

\* 1.10 is rendered with "9V99" as " 110", and with "9.99" as " 1.10"
C32_Witness ==
  /\ Printed
  /\ format = <<"9", "V", "9", "9">>
  /\ Number = <<"1", ".", "1", "0">>
  /\ Output = <<" ", "1", "1", "0">>
  /\ OutputOf(ParseOf(<<"9", ".", "9", "9">>).info, Number).output =
       <<<<" ", "1", ".", "1", "0">>>>
----------------------------------------------------------------------------
(* Flags. *)

\* the elements GetFormatElement returns along str, up to the first position
\* where it returns none
RECURSIVE Tokenize(_)
Tokenize(str) ==
  IF str = << >>
  THEN << >>
  ELSE LET got == GetFormatElement(str) IN
       IF got.element = nullopt
       THEN <<nullopt>>
       ELSE <<got.element>> \o Tokenize(SubstrFrom(str, got.length))

\* Parse's loop on a format that reads as the elements seq, from the parser
\* p: the parser and the status the loop ends with
RECURSIVE ParseElements(_, _)
ParseElements(p, seq) ==
  IF seq = << >>
  THEN [parser |-> p, status |-> OkStatus]
  ELSE LET pushed == [p EXCEPT !.parsed_format_element_info_ =
                                  PushElement(@, Head(seq))]
           done == ProcessFormatElement(pushed, Head(seq))
       IN IF done.status # OkStatus
          THEN done
          ELSE ParseElements(done.parser, Tail(seq))

\* Parse on a format string that reads as the elements seq
ParseOfElements(seq) ==
  LET begun == [FormatParser EXCEPT
                  !.parsed_format_element_info_.decimal_point_index = npos]
      looped == ParseElements(begun, seq)
      st == IF looped.status # OkStatus THEN looped.status
            ELSE FinalValidate(looped.parser)
  IN [status |-> st,
      info |-> IF st = OkStatus THEN SetOutputType(looped.parser)
               ELSE looped.parser.parsed_format_element_info_]

\* seq with its i-th element moved to position j
Move(seq, i, j) ==
  LET rest == SubSeq(seq, 1, i - 1) \o SubSeq(seq, i + 1, Len(seq))
  IN SubSeq(rest, 1, j - 1) \o <<seq[i]>> \o SubSeq(rest, j, Len(rest))

\* what one iteration of Parse's loop makes of the parser on the element
ProcessedOn(element) ==
  ProcessFormatElement(
    [parser EXCEPT !.parsed_format_element_info_ = PushElement(@, element)],
    element)

\* C33: a flag token (FM, B, '$', 'C', 'L') changes neither the state of the
\* parser, its digit counters nor elements, and moving a flag token of a
\* format to any other token position changes neither whether Parse accepts
\* the format nor the ParsedFormat it returns.
C33_FlagsAnywhere ==
  /\ pc = "ParseLoop" =>
       \A element \in Flags :
         LET done == ProcessedOn(element).parser IN
         /\ done.state_ = parser.state_
         /\ done.has_x_ = parser.has_x_
         /\ done.has_9_ = parser.has_9_
         /\ done.has_group_separator_ = parser.has_group_separator_
         /\ done.digit_count_ = parser.digit_count_
         /\ done.parsed_format_element_info_.elements = Info.elements
  /\ AllDone /\ nullopt \notin {Tokenize(format)[i] :
                                   i \in 1..Len(Tokenize(format))} =>
       LET seq == Tokenize(format) IN
       \A i \in 1..Len(seq) : \A j \in 1..Len(seq) :
         seq[i] \in Flags =>
           LET moved == ParseOfElements(Move(seq, i, j)) IN
           /\ (moved.status = OkStatus) <=> (Result(1).status = OkStatus)
           /\ Result(1).status = OkStatus =>
                Result(1).parsed = <<moved.info>>

\* "9.B9" is accepted, and so is "B9.9", with the same ParsedFormat
C33_Witness ==
  /\ AllDone
  /\ format = <<"9", ".", "B", "9">>
  /\ tokens = <<"kDigit9", "kDecimalPointDot", "kElementB", "kDigit9">>
  /\ Result(1).status = OkStatus
  /\ Result(1).parsed[1].has_b
  /\ Result(1).parsed[1].elements =
       <<"kDigit9", "kDecimalPointDot", "kDigit9">>
  /\ Move(tokens, 3, 1) =
       <<"kElementB", "kDigit9", "kDecimalPointDot", "kDigit9">>
----------------------------------------------------------------------------
(* The integer pass. *)

\* the digits the integer pass writes: those of the value, "0" for a value
\* without integer part
IntegerDigits ==
  IF Value.integer_part # << >> THEN Value.integer_part ELSE <<"0">>

\* the number of digit placeholders of the integer part of the format to
\* the right of slot k (slots are 0-based indexes of elements)
DigitSlotsRightOf(k) ==
  Cardinality({i \in (k + 1)..(Info.decimal_point_index - 1) :
                 Info.elements[i + 1] \in Placeholders})

\* the slot of the first '0' placeholder of elements, or npos
FirstZeroSlot ==
  IF \E i \in 1..Len(Info.elements) : Info.elements[i] = "kDigit0"
  THEN (CHOOSE i \in 1..Len(Info.elements) :
          /\ Info.elements[i] = "kDigit0"
          /\ \A j \in 1..(i - 1) : Info.elements[j] # "kDigit0") - 1
  ELSE npos

\* at slot k the digits of the value are exhausted and the slot lies left
\* of the first '0' placeholder, or there is none
StopsAt(k) ==
  /\ DigitSlotsRightOf(k) >= Len(IntegerDigits)
  /\ FirstZeroSlot = npos \/ k < FirstZeroSlot

\* the first slot, from decimal_point_index - 1 down, where the pass stops,
\* or -1
StopSlot ==
  LET stops == {k \in 0..(Info.decimal_point_index - 1) : StopsAt(k)}
  IN IF stops = {} THEN -1
     ELSE CHOOSE k \in stops : \A other \in stops : other <= k

\* what slot k renders as when the pass reaches it
SlotText(k) ==
  IF Info.elements[k + 1] \in GroupSeparators
  THEN ","
  ELSE IF DigitSlotsRightOf(k) < Len(IntegerDigits)
  THEN IntegerDigits[Len(IntegerDigits) - DigitSlotsRightOf(k)]
  ELSE "0"

\* the value does not overflow and FormatAsDecimalInternal has generated
\* the integer part
IntegerPartGenerated ==
  /\ Printed
  /\ ~Overflowed
  /\ Info.num_integer_digit > 0
  /\ GenerateIntegerPart(Info, Value)

\* C34: in a rendering without overflow whose integer part is generated, the
\* integer pass goes right to left from slot decimal_point_index - 1 and
\* stops at the first slot where the digits of the value are exhausted and
\* that lies left of the first '0' placeholder (or there is none); the slots
\* it passes render the digits of the value, then '0', and ',' for group
\* separators; the slots left of the stop are spaces before the sign prefix;
\* left_padding_size plus the length of the integer text is
\* decimal_point_index.
C34_IntegerPass ==
  IntegerPartGenerated =>
    LET integer_part == FormatIntegerPartOfDecimal(Info, Value)
        padding == StopSlot + 1
        text == [i \in 1..(Info.decimal_point_index - padding) |->
                   SlotText(padding + i - 1)]
        head == Spaces(padding) \o SignPrefix(Value.negative) \o text
    IN /\ integer_part.status = OkStatus
       /\ integer_part.left_padding_size = padding
       /\ integer_part.text = text
       /\ integer_part.left_padding_size + Len(integer_part.text) =
            Info.decimal_point_index
       /\ Len(Output) >= Len(head)
       /\ SubSeq(Output, 1, Len(head)) = head

\* 1 is rendered with "90,9": one slot of padding, then the sign, "0,1"
C34_Witness ==
  /\ IntegerPartGenerated
  /\ tokens = <<"kDigit9", "kDigit0", "kGroupSeparatorComma", "kDigit9">>
  /\ Number = <<"1", ".">>
  /\ StopSlot = 0
  /\ Output = <<" ", " ", "0", ",", "1">>
----------------------------------------------------------------------------
(* The split of the formatted value. *)

\* the value of the call was formatted to a string of digits
FormattedToDigits ==
  /\ AllDone
  /\ Result(1).number # << >>
  /\ Number \notin {<<"i", "n", "f">>, <<"-", "i", "n", "f">>,
                     <<"n", "a", "n">>}

\* the string the parts of n are a split of
Rejoined(n) ==
  (IF n.negative THEN <<"-">> ELSE << >>)
    \o (IF n.integer_part = << >> THEN <<"0">> ELSE n.integer_part)
    \o <<".">> \o n.fractional_part
    \o (IF n.exponent # << >> THEN <<"e">> \o n.exponent ELSE << >>)

\* the digits of number before its '.'
DigitsBeforePoint(number) ==
  SelectSeq(SubSeq(number, 1, FindFirstOf(number, ".")),
            LAMBDA c : c \in DigitChars)

\* C35: ParseFormattedRealNumber splits a string matching
\* -?[0-9]+\.[0-9]*(e[+-][0-9]+)? without loss: the sign, the integer part
\* (with "" read as "0"), ".", the fractional part and "e" with the exponent
\* when there is one give back the string; integer_part is "" exactly when
\* the integer digits of the string are "0"; an exponent starts with '+' or
\* '-'.
C35_LosslessSplit ==
  FormattedToDigits =>
    LET split == ParseFormattedRealNumber(Number) IN
    /\ FullMatchReal(Number)
    /\ split.status = OkStatus
    /\ ~split.n.is_infinity /\ ~split.n.is_nan
    /\ Rejoined(split.n) = Number
    /\ split.n.negative <=> Number[1] = "-"
    /\ split.n.integer_part = << >> <=> DigitsBeforePoint(Number) = <<"0">>
    /\ AllDigits(split.n.integer_part) /\ AllDigits(split.n.fractional_part)
    /\ split.n.exponent # << >> =>
         /\ split.n.exponent[1] \in {"+", "-"}
         /\ Len(split.n.exponent) >= 2
         /\ AllDigits(Tail(split.n.exponent))
    /\ split.n.exponent # << >> <=> Has(Number, {"e"})

\* the string "-0.1e-04" is split into '-', "", "1" and "-04"
C35_Witness ==
  /\ FormattedToDigits
  /\ Number = <<"-", "0", ".", "1", "e", "-", "0", "4">>
  /\ Value = [negative |-> TRUE, is_infinity |-> FALSE, is_nan |-> FALSE,
              integer_part |-> << >>, fractional_part |-> <<"1">>,
              exponent |-> <<"-", "0", "4">>]
----------------------------------------------------------------------------
(* Totality of the renderer. *)

\* NumericalToStringWithFormat has handed a finite value, formatted with
\* scale fractional digits, and a Decimal format without 'B' and 'FM' to
\* FormatAsDecimalInternal
RenderedFinite ==
  /\ FormattedToDigits
  /\ Accepted
  /\ Info.output_type = "kDecimal"
  /\ ~Info.has_b /\ ~Info.has_fm
  /\ Len(Value.fractional_part) = Info.scale

----------------------------------------------------------------------------
(* The width of the output. *)

\* the number of characters a Decimal format without EEEE renders to
OutputWidth(negative) ==
  Info.decimal_point_index
    + Cardinality({i \in (Info.decimal_point_index + 1)..Len(Info.elements) :
                     Info.elements[i] # "kElementV"})
    + Len(SignPrefix(negative)) + Len(SignSuffix(negative))
    + Len(CurrencyText)

----------------------------------------------------------------------------
(* Group separators in the output. *)

\* the characters of the left padding, the sign prefix and the currency text
HeadChars == {" ", "-", "+", "<", "$", "u", "s", "d", "U", "S", "D"}

\* C38: in a rendering without overflow a ',' is written only with a digit
\* written somewhere to its left: the integer text does not start with ','
\* and no ',' directly follows the left padding, the sign prefix or the
\* currency text.
C38_SeparatorAfterDigit ==
  Printed /\ ~Overflowed =>
    /\ \A i \in 1..Len(Output) :
         Output[i] = "," =>
           /\ \E j \in 1..(i - 1) : Output[j] \in DigitChars
           /\ Output[i - 1] \notin HeadChars
    /\ IntegerPartGenerated =>
         LET integer_part == FormatIntegerPartOfDecimal(Info, Value)
         IN integer_part.text # << >> => integer_part.text[1] \in DigitChars

\* 1 is rendered with "S,9,9": the two separators left of the digit are not
\* written
C38_Witness ==
  /\ Printed
  /\ ~Overflowed
  /\ tokens = <<"kSignS", "kGroupSeparatorComma", "kDigit9",
                "kGroupSeparatorComma", "kDigit9">>
  /\ Number = <<"1", ".">>
  /\ Output = <<" ", " ", " ", "+", "1">>
  /\ OppositeOutput = <<" ", " ", " ", "-", "1">>
----------------------------------------------------------------------------
(* Group separators in the format. *)

\* C39: in every format Parse accepts, each ',' or 'G' is preceded by at
\* least one '0' or '9', so elements[0] is never a group separator, whether
\* or not the format begins with a front 'S' or with flag tokens.
C39_NoSeparatorBeforeDigit ==
  Accepted =>
    /\ \A i \in 1..Len(tokens) :
         tokens[i] \in GroupSeparators =>
           \E j \in 1..(i - 1) : tokens[j] \in Placeholders
    /\ Info.elements # << >> => Info.elements[1] \notin GroupSeparators
----------------------------------------------------------------------------
(* The states of the parser. *)

\* the place of a state in front_sign integer_part decimal_point
\* fractional_part exponent back_sign
Rank ==
  [kStart |-> 0, kIntegerPart |-> 1, kFractionalPart |-> 2,
   kAfterExponent |-> 3, kAfterBackSign |-> 4]

\* the parser may go from state a to the different state b
Forward(a, b) ==
  \/ a \in DOMAIN Rank /\ b \in DOMAIN Rank /\ Rank[a] < Rank[b]
  \/ a \in {"kStart", "kIntegerPart"} /\ b = "kHexadecimal"
  \/ a = "kHexadecimal" /\ b = "kAfterBackSign"
  \/ a = "kStart" /\ b \in {"kTextMinimal", "kRomanNumeral"}

\* C40: the state of the parser only moves forward, Start to IntegerPart to
\* FractionalPart to AfterExponent to AfterBackSign with states skipped but
\* none gone back to; Hexadecimal is entered only from Start and IntegerPart
\* and left only to AfterBackSign; TextMinimal and RomanNumeral are entered
\* only from Start and never left; Start is never re-entered; an iteration
\* of the loop returns an error or consumes at least one character, so
\* Parse reads at most as many tokens as the format has characters, and
\* ends.
C40_ForwardAndTerminates ==
  /\ [][pc = "ParseLoop" =>
          /\ parser'.state_ # parser.state_ =>
               Forward(parser.state_, parser'.state_)
          /\ parser.state_ # "kStart" => parser'.state_ # "kStart"
          /\ parser.state_ \in {"kTextMinimal", "kRomanNumeral"} =>
               parser'.state_ = parser.state_
          /\ pc' = "ParseLoop" =>
               /\ index' > index
               /\ Len(tokens') = Len(tokens) + 1
          /\ pc' # "ParseLoop" => pc' = "Return"
          /\ index' <= size]_vars
  /\ [](/\ Len(tokens) <= index
        /\ index <= size
        /\ pc = "ParseLoop" => index = Width(tokens))
  /\ [](pc = "Parse" => <>Ended)
  /\ <>AllDone

\* "9.EEEES" has been read in four tokens, through IntegerPart,
\* FractionalPart and AfterExponent to AfterBackSign
C40_Witness ==
  /\ AllDone
  /\ format = <<"9", ".", "E", "E", "E", "E", "S">>
  /\ tokens = <<"kDigit9", "kDecimalPointDot", "kExponentEeeeUpper",
                "kSignS">>
  /\ index = size
  /\ parser.state_ = "kAfterBackSign"
  /\ Result(1).status = OkStatus

====
